---- MODULE Spec2Model ----
(***************************************************************************)
(* A model of the quoting demo's core: the model-fallback gateway          *)
(* (app/utils/geminiApi.ts) and the grid / provenance / citation state     *)
(* with its undo history (app/routes/home.tsx).                            *)
(*                                                                         *)
(* JavaScript arrays are 0-based; sequences here are 1-based, so the       *)
(* element at JavaScript index i is seq[i + 1].  Every index that the      *)
(* program stores or compares (row indices, column indices, indexOf        *)
(* results) is kept 0-based, as in the source.                             *)
(***************************************************************************)
EXTENDS Integers, Sequences, FiniteSets, TLC

\* ------------------------------------------------------------------------
\* Bounds of the model
\* ------------------------------------------------------------------------

\* Longest availableModels list that is explored.
MaxModels == 4

\* Model names that occur in availableModels.  "" is a legal JavaScript
\* string, and a falsy one.
ModelNames == {"m1", "m2", "m3", ""}

\* startModel is any of them, or a name ("mx") that no list contains.
StartModels == ModelNames \cup {"mx"}

\* The value of an expression that evaluates to undefined.
Undefined == "<undefined>"

\* ------------------------------------------------------------------------
\* State
\* ------------------------------------------------------------------------

VARIABLES
    \* --- generateContentWithFallback (geminiApi.ts) ---
    ai,               \* TRUE iff the module-level client `ai` is not null
    availableModels,  \* argument: the ordered model list
    startModel,       \* argument
    hasOnRetry,       \* TRUE iff the optional onRetry callback was passed
    gwPc,             \* "idle" | "awaiting" | "resolved" | "rejected"
    modelName,        \* attempt's parameter: the model being called
    failedList,       \* attempt's parameter
    gwLog,            \* the calls made, in order: generateContent and onRetry
    gwResult          \* the value the promise settled with

gwVars == <<ai, availableModels, startModel, hasOnRetry, gwPc, modelName,
            failedList, gwLog, gwResult>>

VARIABLES
    \* --- Home (home.tsx): React state ---
    fileData,          \* the grid: row 0 is the header row
    editMetadata,      \* provenance: "row-col" -> "user" | "ai" | "extraction-<id>"
    rowSources,        \* citations: row index -> RowSourceInfo
    history,           \* undo stack of HistoryState, newest last
    future,            \* redo stack of HistoryState, next first
    originalFileData,  \* the grid as loaded
    extractionErrors,  \* file id -> the error message shown on its chip
    extraFiles,        \* ids of the attached reference files, in order
    colorCounter,      \* reference files attached so far
    extractingFileIds, \* ids with an extraction in flight, in order
    isQuoting,         \* a batch quote is in flight
    quotingRowIndices, \* rows with a single-row quote in flight, in order
    chatLoading,       \* GeminiChat's loading flag
    inflight,          \* continuations of the handlers suspended at an await
    crashed,           \* a state updater threw while rendering
    \* --- exploration ---
    profile,           \* "wide" or "deep": which inputs the environment uses
    started,           \* committing handler calls so far ("wide" stops at MaxOps)
    nCommitted,        \* mutations committed since the load, while linear
    nUndone,           \* handleUndo calls since the last of them, while linear
    linear,            \* so far: mutations first, then only handleUndo calls
    lastOp,            \* the handler (or its resumption) that ran last
    answer             \* what the awaited call resolved with, in a resumption

homeVars == <<fileData, editMetadata, rowSources, history, future,
              originalFileData, extractionErrors, extraFiles, colorCounter,
              extractingFileIds,
              isQuoting, quotingRowIndices, chatLoading, inflight, crashed>>

traceVars == <<profile, started, nCommitted, nUndone, linear, lastOp, answer>>

VARIABLES
    \* --- GeminiChat (components/GeminiChat.tsx): React state ---
    messages           \* the chat turns, oldest first

chatVars == <<messages>>

vars == <<gwVars, homeVars, traceVars, chatVars>>

\* ------------------------------------------------------------------------
\* Array helpers (JavaScript semantics)
\* ------------------------------------------------------------------------

Range(s) == {s[i] : i \in 1..Len(s)}

Includes(s, x) == \E i \in 1..Len(s) : s[i] = x

\* Array.prototype.indexOf: 0-based index of the first occurrence, or -1.
IndexOf(s, x) ==
    IF Includes(s, x)
    THEN (CHOOSE i \in 1..Len(s) : s[i] = x /\ \A j \in 1..(i - 1) : s[j] # x) - 1
    ELSE -1

\* A JavaScript string used as a condition: undefined and "" are falsy.
Truthy(v) == v # Undefined /\ v # ""

\* All sequences over S of length at most n.
SeqsUpTo(S, n) == UNION {[1..k -> S] : k \in 0..n}

\* ------------------------------------------------------------------------
\* generateContentWithFallback
\* ------------------------------------------------------------------------

\* getNextModel: the first entry after indexOf(current) that is not excluded.
\* slice(idx + 1) keeps the 0-based positions idx + 1 .. length - 1.
getNextModelSkipsOne(current, excluded) ==
    LET idx == IndexOf(availableModels, current)
        cand == {p \in (idx + 2)..(Len(availableModels) - 1) :
                    ~Includes(excluded, availableModels[p + 1])}
    IN IF cand = {} THEN Undefined
       ELSE availableModels[(CHOOSE p \in cand : \A q \in cand : p <= q) + 1]

getNextModelWraps(current, excluded) ==
    LET cand == {p \in 0..(Len(availableModels) - 1) :
                    ~Includes(excluded, availableModels[p + 1])}
    IN IF cand = {} THEN Undefined
       ELSE availableModels[(CHOOSE p \in cand : \A q \in cand : p <= q) + 1]

getNextModelForgetsExcluded(current, excluded) ==
    LET idx == IndexOf(availableModels, current)
        cand == (idx + 1)..(Len(availableModels) - 1)
    IN IF cand = {} THEN Undefined
       ELSE availableModels[(CHOOSE p \in cand : \A q \in cand : p <= q) + 1]

getNextModel(current, excluded) ==
    LET idx == IndexOf(availableModels, current)
        cand == {p \in (idx + 1)..(Len(availableModels) - 1) :
                    ~Includes(excluded, availableModels[p + 1])}
    IN IF cand = {} THEN Undefined
       ELSE availableModels[(CHOOSE p \in cand : \A q \in cand : p <= q) + 1]

CallEvent(m) == [ev |-> "generateContent", model |-> m, next |-> Undefined]
RetryEvent(failed, next) == [ev |-> "onRetry", model |-> failed, next |-> next]

\* The events of one fallback transition, in the order the catch branch
\* produces them: onRetry (when supplied), then the recursive attempt's call.
TransitionEventsLate(failed, next) ==
    <<CallEvent(next)>> \o
    (IF hasOnRetry THEN <<RetryEvent(failed, next)>> ELSE <<>>)

TransitionEvents(failed, next) ==
    (IF hasOnRetry THEN <<RetryEvent(failed, next)>> ELSE <<>>) \o
    <<CallEvent(next)>>

\* The call itself: the guard clause, then attempt(startModel, []) up to its
\* await.
callGateway ==
    /\ gwPc = "idle"
    /\ IF ~ai
       THEN /\ gwPc' = "rejected"
            /\ gwResult' = [error |-> "AI is not configured",
                            text |-> Undefined, finalModel |-> Undefined]
            /\ UNCHANGED <<modelName, failedList, gwLog>>
       ELSE /\ gwPc' = "awaiting"
            /\ modelName' = startModel
            /\ failedList' = <<>>
            /\ gwLog' = <<CallEvent(startModel)>>
            /\ UNCHANGED gwResult
    /\ UNCHANGED <<ai, availableModels, startModel, hasOnRetry>>

\* A call of the gateway on its own.
generateContentWithFallback ==
    /\ lastOp = "none"
    /\ callGateway
    /\ UNCHANGED <<homeVars, traceVars, chatVars>>

\* attempt, try branch: the awaited model call returned.
attemptReturns ==
    /\ gwPc = "awaiting"
    /\ \E text \in {"", "text"} :
          gwResult' = [error |-> Undefined, text |-> text,
                       finalModel |-> modelName]
    /\ gwPc' = "resolved"
    /\ UNCHANGED <<ai, availableModels, startModel, hasOnRetry, modelName,
                   failedList, gwLog>>
    /\ UNCHANGED <<homeVars, traceVars, chatVars>>

\* A chat turn; `send` numbers the handleSendMessage call that produced it.
Turn(role, send, text, isError) ==
    [role |-> role, send |-> send, text |-> text, isError |-> isError]

\* The texts of the turns: what the user typed, the model's answer shown,
\* the catch block's fixed text, and the notice of a fallback transition.
UserText == <<"prompt">>
AnswerText == <<"answer">>
ErrorText == <<"Sorry, I encountered an error. All models may be busy.">>
SwitchText(failed, next) == <<"failed", failed, "Switching to", next>>

\* An onRetry that shows one notice for a whole run of transitions.
onRetryCollapsed(failed, next) ==
    IF hasOnRetry /\ lastOp = "handleSendMessage"
          /\ ~(Len(messages) > 0 /\ messages[Len(messages)].role = "system")
    THEN messages' = Append(messages,
                            Turn("system", started, SwitchText(failed, next), FALSE))
    ELSE UNCHANGED messages

\* What the caller's onRetry callback does: GeminiChat appends a system
\* turn, extractDataFromReference only writes to the console.
onRetry(failed, next) ==
    IF hasOnRetry /\ lastOp = "handleSendMessage"
    THEN messages' = Append(messages,
                            Turn("system", started, SwitchText(failed, next), FALSE))
    ELSE UNCHANGED messages

\* attempt, catch branch: the awaited model call threw.
attemptCatch ==
    /\ gwPc = "awaiting"
    /\ LET newFailedList == Append(failedList, modelName)
           nextModel == getNextModel(modelName, newFailedList)
       IN IF Truthy(nextModel)
          THEN /\ gwLog' = gwLog \o TransitionEvents(modelName, nextModel)
               /\ onRetry(modelName, nextModel)
               /\ modelName' = nextModel
               /\ failedList' = newFailedList
               /\ UNCHANGED <<gwPc, gwResult>>
          ELSE /\ gwPc' = "rejected"
               /\ gwResult' = [error |-> "AI Request failed",
                               text |-> Undefined, finalModel |-> Undefined]
               /\ failedList' = newFailedList
               /\ UNCHANGED <<modelName, gwLog, messages>>
    /\ UNCHANGED <<ai, availableModels, startModel, hasOnRetry>>
    /\ UNCHANGED <<homeVars, traceVars>>

InitGateway ==
    /\ ai \in BOOLEAN
    /\ availableModels \in SeqsUpTo(ModelNames, MaxModels)
    /\ startModel \in StartModels
    /\ hasOnRetry \in BOOLEAN
    /\ gwPc = "idle"
    /\ modelName = Undefined
    /\ failedList = <<>>
    /\ gwLog = <<>>
    /\ gwResult = [error |-> Undefined, text |-> Undefined,
                   finalModel |-> Undefined]
    /\ fileData = <<>> /\ editMetadata = <<>> /\ rowSources = <<>>
    /\ history = <<>> /\ future = <<>> /\ originalFileData = <<>>
    /\ extractionErrors = <<>>
    /\ extraFiles = <<>> /\ extractingFileIds = <<>> /\ isQuoting = FALSE
    /\ quotingRowIndices = <<>> /\ inflight = <<>>
    /\ colorCounter = 0 /\ chatLoading = FALSE /\ crashed = FALSE
    /\ profile = "none" /\ started = 0
    /\ nCommitted = 0 /\ nUndone = 0 /\ linear = FALSE /\ lastOp = "none"
    /\ answer = [of |-> "none"]
    /\ messages = <<>>

NextGateway ==
    \/ generateContentWithFallback
    \/ attemptReturns
    \/ attemptCatch

SpecGateway == InitGateway /\ [][NextGateway]_vars

\* The model call returns or throws: no call is pending forever.
SpecGatewayFair == SpecGateway /\ WF_vars(attemptReturns \/ attemptCatch)

\* ------------------------------------------------------------------------
\* Properties of generateContentWithFallback
\* ------------------------------------------------------------------------

\* The models on which generateContent was called, in call order.
CallEvents == SelectSeq(gwLog, LAMBDA e : e.ev = "generateContent")
Attempted == [i \in 1..Len(CallEvents) |-> CallEvents[i].model]
RetryEvents == SelectSeq(gwLog, LAMBDA e : e.ev = "onRetry")

NoDuplicates(s) == \A i, j \in 1..Len(s) : s[i] = s[j] => i = j

\* Every position (0-based) at which m sits in the list.
Positions(m) == {p \in 0..(Len(availableModels) - 1) : availableModels[p + 1] = m}

Exhausted == gwPc = "rejected" /\ gwResult.error = "AI Request failed"
Settled == gwPc \in {"resolved", "rejected"}

\* A list of pairwise distinct, non-empty model names.
DistinctNamedList == NoDuplicates(availableModels) /\ "" \notin Range(availableModels)

\* C1 as stated: when every model call fails, the call rejects after exactly
\* N = len(availableModels) attempts whatever startModel is (here even
\* restricted to duplicate-free lists that contain startModel).
OrigC1 ==
    (Exhausted /\ DistinctNamedList /\ Includes(availableModels, startModel))
        => Len(Attempted) = Len(availableModels)

\* C1 amended: for a duplicate-free list of N non-empty names in which every
\* call fails, the call rejects with the exhaustion error after exactly N - p
\* attempts, p the 0-based position of startModel (N + 1 attempts when
\* startModel is not in the list); no model is attempted twice, and no state
\* before the rejection has made more attempts than that.
ExpectedAttempts ==
    IF Includes(availableModels, startModel)
    THEN Len(availableModels) - IndexOf(availableModels, startModel)
    ELSE Len(availableModels) + 1

ThmC1 ==
    /\ NoDuplicates(Attempted)
    /\ DistinctNamedList =>
          /\ Len(Attempted) <= ExpectedAttempts
          /\ Exhausted => Len(Attempted) = ExpectedAttempts
          /\ (gwPc = "rejected" /\ ai) => Exhausted

WitC1 ==
    /\ Exhausted /\ DistinctNamedList
    /\ Len(availableModels) = 3
    /\ startModel = availableModels[2]
    /\ Len(Attempted) = 2

AttemptBound ==
    /\ Len(Attempted) <= Len(availableModels) + 1
    /\ Includes(availableModels, startModel) =>
          Len(Attempted) <= Len(availableModels)

OrigC3 ==
    \A i, j \in 1..Len(Attempted) :
        (i < j /\ Includes(availableModels, Attempted[i])) =>
            \E p \in Positions(Attempted[i]), q \in Positions(Attempted[j]) : q > p

\* C3 amended: when availableModels has no duplicate entries, every model
\* selected after a failure sits at a position strictly greater than that of
\* every model that failed before it in the same call (-1 for a startModel
\* outside the list), and is never a model of the failed list.
ThmC3 ==
    /\ NoDuplicates(availableModels) =>
          \A i, j \in 1..Len(Attempted) :
              i < j => IndexOf(availableModels, Attempted[j])
                          > IndexOf(availableModels, Attempted[i])
    /\ \A j \in 2..Len(Attempted) :
          /\ Includes(availableModels, Attempted[j])
          /\ \A i \in 1..(j - 1) : Attempted[i] # Attempted[j]
    /\ \A i \in 1..Len(failedList) : Includes(Attempted, failedList[i])

WitC3 ==
    /\ DistinctNamedList
    /\ Len(availableModels) = 3
    /\ startModel = availableModels[1]
    /\ Len(Attempted) = 3
    /\ Len(failedList) = 2

\* C4: with onRetry supplied, the log is the first generateContent call then,
\* per fallback transition, one onRetry(failed, next) immediately followed by
\* the generateContent call on next; so there is one notice per transition,
\* none after the last call, and for [m1, m2, m3] with m1 and m2 failing the
\* notices are (m1, m2) then (m2, m3) when the call resolves.
ThmC4 ==
    /\ Len(gwLog) > 0 => gwLog[1] = CallEvent(startModel)
    /\ hasOnRetry =>
          /\ \A i \in 2..Len(gwLog) :
                IF gwLog[i].ev = "generateContent"
                THEN /\ gwLog[i - 1].ev = "onRetry"
                     /\ gwLog[i - 1].next = gwLog[i].model
                ELSE /\ gwLog[i - 1].ev = "generateContent"
                     /\ gwLog[i - 1].model = gwLog[i].model
                     /\ i < Len(gwLog)
          /\ Len(gwLog) > 0 => Len(RetryEvents) = Len(Attempted) - 1
    /\ ~hasOnRetry => RetryEvents = <<>>
    /\ ( /\ hasOnRetry
         /\ availableModels = <<"m1", "m2", "m3">>
         /\ startModel = "m1"
         /\ gwPc = "resolved"
         /\ gwResult.finalModel = "m3" )
          => RetryEvents = <<RetryEvent("m1", "m2"), RetryEvent("m2", "m3")>>

WitC4 ==
    /\ hasOnRetry
    /\ availableModels = <<"m1", "m2", "m3">>
    /\ startModel = "m1"
    /\ gwPc = "resolved"
    /\ gwResult.finalModel = "m3"
    /\ Len(RetryEvents) = 2

\* ------------------------------------------------------------------------
\* Home: grid, provenance, citations and their history (home.tsx)
\* ------------------------------------------------------------------------

MAX_HISTORY == 10

\* Bounds of the exploration.  The "wide" profile uses every input below and
\* stops after MaxOps committing handler calls; the "deep" profile uses few
\* inputs and lets the history grow to MaxHistoryLen entries.
MaxOps == 2
MaxHistoryLen == 11
MaxFiles == 2
MaxInFlight == 1
MaxCols == 6

\* Objects used as maps (Record<string, T>, Record<number, T>).
EmptyMap == <<>>
Put(m, k, v) == [x \in DOMAIN m \cup {k} |-> IF x = k THEN v ELSE m[x]]
Get(m, k) == IF k \in DOMAIN m THEN m[k] ELSE Undefined
\* { ...a, ...b }
Spread(a, b) == [x \in DOMAIN a \cup DOMAIN b |-> IF x \in DOMAIN b THEN b[x] ELSE a[x]]

\* The template literal `${r}-${c}`.
Key(r, c) == ToString(r) \o "-" \o ToString(c)

\* The template literal `extraction-${id}`.
ExtractionTag(id) == "extraction-" \o id

\* A cell holding null (JSON null in an answer's data array).
NullCell == "<null>"

\* String(v) for a cell value: cells are strings, null or undefined.
String(v) ==
    IF v = Undefined THEN "undefined"
    ELSE IF v = NullCell THEN "null"
    ELSE v

\* v ?? d
Coalesce(v, d) == IF v = Undefined \/ v = NullCell THEN d ELSE v

\* The ascending sequence of a finite set of numbers.
Ascending(S) ==
    [i \in 1..Cardinality(S) |-> CHOOSE x \in S : Cardinality({y \in S : y < x}) = i - 1]

\* array.filter(x => x !== v)
Without(s, v) == SelectSeq(s, LAMBDA x : x # v)

HistoryState(data, metadata, sources) ==
    [data |-> data, metadata |-> metadata, sources |-> sources]

\* The (grid, provenance, citations) triple of the current render.
Current == HistoryState(fileData, editMetadata, rowSources)

\* The triple as loaded: handleFileChange clears provenance and citations.
Loaded == HistoryState(originalFileData, EmptyMap, EmptyMap)

\* commitToHistory's setHistory updater: push, keep the newest MAX_HISTORY.
commitToHistory(prev, snapshot) ==
    LET newHistory == Append(prev, snapshot)
    IN IF Len(newHistory) > MAX_HISTORY
       THEN SubSeq(newHistory, Len(newHistory) - MAX_HISTORY + 1, Len(newHistory))
       ELSE newHistory

\* A document: the triple with both stacks.
Doc(cur, hist, fut) == [cur |-> cur, history |-> hist, future |-> fut]
CurrentDoc == Doc(Current, history, future)

\* A handleUndo that restores the oldest snapshot instead of the newest.
handleUndoResultOldest(d) ==
    LET previousState == d.history[1]
        newHistory == SubSeq(d.history, 2, Len(d.history))
    IN Doc(previousState, newHistory, <<d.cur>> \o d.future)

\* handleUndo on a document with a non-empty undo stack.
handleUndoResult(d) ==
    LET previousState == d.history[Len(d.history)]
        newHistory == SubSeq(d.history, 1, Len(d.history) - 1)
    IN Doc(previousState, newHistory, <<d.cur>> \o d.future)

\* A handleRedo that leaves the state it restores on the redo stack.
handleRedoResultKeepsFuture(d) ==
    LET nextState == d.future[1]
    IN Doc(nextState, Append(d.history, d.cur), d.future)

\* handleRedo on a document with a non-empty redo stack.
handleRedoResult(d) ==
    LET nextState == d.future[1]
        newFuture == SubSeq(d.future, 2, Len(d.future))
    IN Doc(nextState, Append(d.history, d.cur), newFuture)

SetDoc(d) ==
    /\ fileData' = d.cur.data
    /\ editMetadata' = d.cur.metadata
    /\ rowSources' = d.cur.sources
    /\ history' = d.history
    /\ future' = d.future

SetCurrent(t) ==
    /\ fileData' = t.data
    /\ editMetadata' = t.metadata
    /\ rowSources' = t.sources

\* commitToHistory() as called by a handler of the current render.
Commit ==
    /\ history' = commitToHistory(history, Current)
    /\ future' = <<>>

\* --- exploration bookkeeping ---

\* The "wide" profile stops after MaxOps handler calls; the "deep" profile
\* only chats, undoes and redoes.
Budget == profile = "wide" /\ started < MaxOps

CountStart == started' = started + 1

\* The "deep" profile sends chat messages while the stacks have room.
ChatBudget ==
    IF profile = "deep" THEN Len(history) + Len(future) < MaxHistoryLen
    ELSE Budget

NoAnswer == [of |-> "none"]
Answer(of, arg, value) == [of |-> of, arg |-> arg, value |-> value]

\* A handler ran up to its await, or to its end without awaiting.
Did(op) == lastOp' = op /\ answer' = NoAnswer

\* A handler resumed with the value its awaited call resolved with.
DidWith(op, of, arg, value) ==
    lastOp' = op /\ answer' = Answer(of, arg, value)

\* The same, keeping the response the awaited call worked on.
DidFrom(op, of, arg, value, response) ==
    /\ lastOp' = op
    /\ answer' = [of |-> of, arg |-> arg, value |-> value, response |-> response]

\* delete next[k]
Delete(m, k) == [x \in DOMAIN m \ {k} |-> m[x]]

NotLinear == linear' = FALSE /\ nCommitted' = 0 /\ nUndone' = 0

\* A mutation was committed.
TrackMutation ==
    IF linear /\ nUndone = 0 /\ nCommitted < MAX_HISTORY
    THEN nCommitted' = nCommitted + 1 /\ UNCHANGED <<linear, nUndone>>
    ELSE NotLinear

\* The changes of an earlier committed mutation were applied.
TrackApply ==
    IF linear /\ nUndone = 0 THEN UNCHANGED <<linear, nCommitted, nUndone>>
    ELSE NotLinear

TrackUndo ==
    IF linear /\ nUndone < nCommitted
    THEN nUndone' = nUndone + 1 /\ UNCHANGED <<linear, nCommitted>>
    ELSE NotLinear

\* --- inputs ---

LoadedFile ==
    IF profile = "wide"
    THEN <<<<"Part", "Net Price">>, <<"p1", "">>>>
    ELSE <<<<"Part">>, <<"p1">>>>

EditValues == IF profile = "wide" THEN {"", "p2"} ELSE {"p2"}

\* --- removeDataForFileId ---

\* An isFromThisFile that looks at the cell tags only.
isFromThisFileTagsOnly(idToRemove, r, currentData, currentMeta, currentSources) ==
    \E c \in 0..(Len(currentData[r + 1]) - 1) :
        Get(currentMeta, Key(r, c)) = ExtractionTag(idToRemove)

isFromThisFile(idToRemove, r, currentData, currentMeta, currentSources) ==
    \/ \E c \in 0..(Len(currentData[r + 1]) - 1) :
          Get(currentMeta, Key(r, c)) = ExtractionTag(idToRemove)
    \/ r \in DOMAIN currentSources /\ currentSources[r].fileId = idToRemove

rowsKeepIndices(idToRemove, currentData, currentMeta, currentSources) ==
    <<0>> \o Ascending({r \in 1..(Len(currentData) - 1) :
                ~isFromThisFile(idToRemove, r, currentData, currentMeta, currentSources)})

\* A removeDataForFileId that leaves the tags and citations under their old keys.
removeDataForFileIdUnshifted(idToRemove, currentData, currentMeta, currentSources) ==
    LET keep == rowsKeepIndices(idToRemove, currentData, currentMeta, currentSources)
        newData == [i \in 1..Len(keep) |-> currentData[keep[i] + 1]]
        kept == {<<i, c>> \in (1..Len(keep)) \X (0..MaxCols) :
                    /\ c < Len(currentData[keep[i] + 1])
                    /\ Truthy(Get(currentMeta, Key(keep[i], c)))}
        newMetadata ==
            [k \in {Key(keep[e[1]], e[2]) : e \in kept} |-> currentMeta[k]]
        newSources ==
            [n \in {keep[j] : j \in {j \in 1..Len(keep) : keep[j] \in DOMAIN currentSources}} |->
                currentSources[n]]
    IN HistoryState(newData, newMetadata, newSources)

removeDataForFileId(idToRemove, currentData, currentMeta, currentSources) ==
    LET keep == rowsKeepIndices(idToRemove, currentData, currentMeta, currentSources)
        newData == [i \in 1..Len(keep) |-> currentData[keep[i] + 1]]
        shifted == {<<i, c>> \in (1..Len(keep)) \X (0..MaxCols) :
                       /\ c < Len(currentData[keep[i] + 1])
                       /\ Truthy(Get(currentMeta, Key(keep[i], c)))}
        newMetadata ==
            [k \in {Key(e[1] - 1, e[2]) : e \in shifted} |->
                LET e == CHOOSE e \in shifted : Key(e[1] - 1, e[2]) = k
                IN currentMeta[Key(keep[e[1]], e[2])]]
        newSources ==
            [n \in {i - 1 : i \in {j \in 1..Len(keep) : keep[j] \in DOMAIN currentSources}} |->
                currentSources[keep[n + 1]]]
    IN HistoryState(newData, newMetadata, newSources)

\* --- synchronous handlers ---

uiFlags == <<extractingFileIds, isQuoting, quotingRowIndices, chatLoading>>

handleUndo ==
    /\ ~crashed
    /\ Len(history) > 0
    /\ SetDoc(handleUndoResult(CurrentDoc))
    /\ TrackUndo
    /\ Did("handleUndo")
    /\ UNCHANGED <<originalFileData, extractionErrors, extraFiles, colorCounter, uiFlags,
                   inflight, crashed, profile, started>>
    /\ UNCHANGED <<gwVars, chatVars>>

handleRedo ==
    /\ ~crashed
    /\ Len(future) > 0
    /\ SetDoc(handleRedoResult(CurrentDoc))
    /\ NotLinear
    /\ Did("handleRedo")
    /\ UNCHANGED <<originalFileData, extractionErrors, extraFiles, colorCounter, uiFlags,
                   inflight, crashed, profile, started>>
    /\ UNCHANGED <<gwVars, chatVars>>

\* What the user does in the cell editor: type a value, or nothing.
Edits == {[typed |-> FALSE]} \cup {[typed |-> TRUE, value |-> v] : v \in EditValues}

\* startEditing(rowIndex, colIndex, currentValue): the editor's initial text.
startEditing(currentValue) == String(Coalesce(currentValue, ""))

\* Double click on a cell (startEditing), typing or not, then saveEdit.
saveEdit ==
    /\ ~crashed
    /\ \E rowIndex \in 0..(Len(fileData) - 1) :
         \E colIndex \in 0..(Len(fileData[rowIndex + 1]) - 1) :
           \E edit \in Edits :
             LET newRow == fileData[rowIndex + 1]
                 tempValue == IF edit.typed THEN edit.value
                              ELSE startEditing(newRow[colIndex + 1])
             IN IF String(newRow[colIndex + 1]) # tempValue
                THEN /\ Budget
                     /\ Commit
                     /\ fileData' = [fileData EXCEPT
                                        ![rowIndex + 1][colIndex + 1] = tempValue]
                     /\ editMetadata' =
                            Put(editMetadata, Key(rowIndex, colIndex), "user")
                     /\ UNCHANGED rowSources
                     /\ CountStart
                     /\ TrackMutation
                     /\ DidWith("saveEdit", "edit", <<rowIndex, colIndex>>, edit)
                     /\ UNCHANGED <<originalFileData, extractionErrors,
                                    extraFiles, colorCounter, uiFlags, inflight,
                                    crashed, profile>>
                     /\ UNCHANGED <<gwVars, chatVars>>
                ELSE UNCHANGED vars

\* The reset dialog's confirm button; the dialog opens only with hasEdits.
\* JSON.parse(JSON.stringify(grid)): a new array of new rows. The loaded
\* cells are display strings (sheet_to_json with raw: false, defval: ""),
\* which JSON carries over unchanged.
JSONclone(grid) ==
    [r \in 1..Len(grid) |-> [c \in 1..Len(grid[r]) |-> grid[r][c]]]

\* A reset that replaces the triple without committing it first.
handleResetDataUncommitted ==
    /\ ~crashed
    /\ DOMAIN editMetadata # {}
    /\ Budget
    /\ SetCurrent(HistoryState(JSONclone(originalFileData), EmptyMap, EmptyMap))
    /\ extractionErrors' = EmptyMap
    /\ CountStart
    /\ NotLinear
    /\ Did("handleResetData")
    /\ UNCHANGED <<history, future>>
    /\ UNCHANGED <<originalFileData, extraFiles, colorCounter, uiFlags,
                   inflight, crashed, profile>>
    /\ UNCHANGED <<gwVars, chatVars>>

\* The reset dialog's confirm button; the dialog opens when there are edits.
handleResetData ==
    /\ ~crashed
    /\ DOMAIN editMetadata # {}
    /\ Budget
    /\ Commit
    /\ SetCurrent(HistoryState(JSONclone(originalFileData), EmptyMap, EmptyMap))
    /\ extractionErrors' = EmptyMap
    /\ CountStart
    /\ TrackMutation
    /\ Did("handleResetData")
    /\ UNCHANGED <<originalFileData, extraFiles, colorCounter, uiFlags,
                   inflight, crashed, profile>>
    /\ UNCHANGED <<gwVars, chatVars>>

\* The chip's remove button, disabled while that file is being extracted.
removeExtraFile ==
    \E idToRemove \in Range(extraFiles) :
        /\ ~crashed
        /\ ~Includes(extractingFileIds, idToRemove)
        /\ Budget
        /\ Commit
        /\ extraFiles' = Without(extraFiles, idToRemove)
        /\ extractionErrors' = Delete(extractionErrors, idToRemove)
        /\ IF Len(fileData) > 0
           THEN SetCurrent(removeDataForFileId(idToRemove, fileData,
                                               editMetadata, rowSources))
           ELSE \* currentData[0] is undefined: row.forEach throws after the
                \* updates above were queued
                UNCHANGED <<fileData, editMetadata, rowSources>>
        /\ CountStart
        /\ TrackMutation
        /\ Did("removeExtraFile")
        /\ UNCHANGED <<originalFileData, colorCounter, uiFlags, inflight,
                       crashed, profile>>
        /\ UNCHANGED <<gwVars, chatVars>>

\* --- the extraction adapter's answers (extractDataFromReference) ---

\* null, as a record so that it compares with the records it stands in for.
Null == [null |-> TRUE]

\* A row the model answered without a citation object.
NoCitation == [type |-> Undefined]

DocumentCitation == [type |-> "document", page |-> "1", quote |-> "x1"]
SpreadsheetCitation == [type |-> "spreadsheet", location |-> "B2", reasoning |-> "r"]

\* A citation object the model answered with type "document" and no quote.
DocumentCitationWithoutQuote == [type |-> "document", page |-> "2"]

ExtractedRows ==
    {<<>>,
     <<[data |-> <<"x1", "1">>, citation |-> DocumentCitation]>>,
     <<[data |-> <<"x1", "1">>, citation |-> DocumentCitation],
       [data |-> <<"x2", NullCell>>, citation |-> NoCitation]>>,
     <<[data |-> <<>>, citation |-> SpreadsheetCitation]>>,
     <<[data |-> <<"x3">>, citation |-> DocumentCitationWithoutQuote]>>,
     \* a well-formed row, then a row without a data member
     <<[data |-> <<"x1", "1">>, citation |-> DocumentCitation],
       [citation |-> SpreadsheetCitation]>>}

\* A response text is a sequence of tokens: "{" and "}", prose ("p"), and
\* the members an object may hold: "rows" for "rows": [...] (the array is
\* the response's payload), "rowsText" for "rows": "none" and "k" for a
\* member of another name.
ResponseTexts ==
    {<<>>, <<"p">>, <<"{", "p">>, <<"p", "}">>, <<"}", "p", "{">>,
     <<"{", "}">>, <<"{", "k", "}">>, <<"{", "rowsText", "}">>,
     <<"{", "p", "}">>, <<"{", "rows", "}", "}">>}

\* What readFileAsBase64 and the gateway call of extractDataFromReference
\* come to: the read fails, the gateway rejects, or it resolves with a text
\* and the model that produced it.
ExtractionResponses ==
    IF profile = "wide"
    THEN {[kind |-> "readError"], [kind |-> "reject"]}
         \cup {[kind |-> "text", text |-> t, payload |-> <<>>, finalModel |-> "m1"] :
                  t \in ResponseTexts}
         \cup {[kind |-> "text", text |-> <<"p", "{", "rows", "}", "p">>,
                 payload |-> r, finalModel |-> "m2"] : r \in ExtractedRows}
    ELSE {[kind |-> "reject"]}

\* String.prototype.lastIndexOf: 0-based index of the last occurrence, or -1.
lastIndexOf(s, x) ==
    IF Includes(s, x)
    THEN (CHOOSE i \in 1..Len(s) : s[i] = x /\ \A j \in (i + 1)..Len(s) : s[j] # x) - 1
    ELSE -1

\* String.prototype.substring(a, b) for a, b >= 0: both are clamped to the
\* length and swapped when a > b.
substring(s, a, b) ==
    LET ca == IF a > Len(s) THEN Len(s) ELSE a
        cb == IF b > Len(s) THEN Len(s) ELSE b
    IN IF ca <= cb THEN SubSeq(s, ca + 1, cb) ELSE SubSeq(s, cb + 1, ca)

\* JSON.parse of a token text: "throws", or what the parsed object's rows
\* member is: "array", "other" (not an array) or "absent".
JSONparse(s) ==
    IF Len(s) = 2 /\ s[1] = "{" /\ s[2] = "}" THEN "absent"
    ELSE IF Len(s) = 3 /\ s[1] = "{" /\ s[3] = "}"
                       /\ s[2] \in {"rows", "rowsText", "k"}
    THEN CASE s[2] = "rows" -> "array"
           [] s[2] = "rowsText" -> "other"
           [] OTHER -> "absent"
    ELSE "throws"

\* An extractDataFromReference for which a text without braces is a failure.
extractDataFromReferenceStrict(response) ==
    IF response.kind # "text" THEN Null
    ELSE LET startIndex == IndexOf(response.text, "{")
             endIndex == lastIndexOf(response.text, "}")
         IN IF startIndex = -1 \/ endIndex = -1
            THEN Null
            ELSE LET cleanJson == substring(response.text, startIndex, endIndex + 1)
                     parsedObj == JSONparse(cleanJson)
                 IN IF parsedObj = "throws" THEN Null
                    ELSE IF parsedObj = "array"
                    THEN [rows |-> response.payload, finalModel |-> response.finalModel]
                    ELSE [rows |-> <<>>, finalModel |-> response.finalModel]

\* What extractDataFromReference resolves with: null, or { rows, finalModel }.
extractDataFromReference(response) ==
    IF response.kind # "text" THEN Null
    ELSE LET startIndex == IndexOf(response.text, "{")
             endIndex == lastIndexOf(response.text, "}")
         IN IF startIndex = -1 \/ endIndex = -1
            THEN [rows |-> <<>>, finalModel |-> response.finalModel]
            ELSE LET cleanJson == substring(response.text, startIndex, endIndex + 1)
                     parsedObj == JSONparse(cleanJson)
                 IN IF parsedObj = "throws" THEN Null
                    ELSE IF parsedObj = "array"
                    THEN [rows |-> response.payload, finalModel |-> response.finalModel]
                    ELSE [rows |-> <<>>, finalModel |-> response.finalModel]

ExtractionResults == {extractDataFromReference(response) : response \in ExtractionResponses}

FileName(id) == id \o ".pdf"

\* crypto.randomUUID(): the k-th id handed out.
NewId(k) == "f" \o ToString(k)

\* --- runExtraction ---

\* The message of runExtraction's failure branch.
ErrorMessage(id) ==
    "Could not extract valid tabular data from " \o FileName(id) \o "."

\* An extractionErrorsAfter that reports a null answer only.
extractionErrorsAfterNullOnly(id, result, errors) ==
    IF result # Null THEN errors
    ELSE Put(errors, id, ErrorMessage(id))

\* extractionErrors once runExtraction got `result` for the file `id`.
extractionErrorsAfter(id, result, errors) ==
    IF result # Null /\ Len(result.rows) > 0 THEN errors
    ELSE Put(errors, id, ErrorMessage(id))

\* runExtraction's merge throws: rowObj.data.forEach on a row whose data is
\* undefined.
mergeThrows(result) ==
    /\ result # Null
    /\ \E i \in 1..Len(result.rows) : "data" \notin DOMAIN result.rows[i]

\* A runExtraction that tags the first cell of each new row only.
runExtractionTagsFirstCell(id, result, currentData, currentMeta, currentSources) ==
    LET cleaned == removeDataForFileId(id, currentData, currentMeta, currentSources)
    IN IF result # Null /\ Len(result.rows) > 0
       THEN LET startRowIndex == Len(cleaned.data)
                newRowsData == [i \in 1..Len(result.rows) |-> result.rows[i].data]
                updatedData == cleaned.data \o newRowsData
                tagged == {<<rIdx, cIdx>> \in (0..(Len(result.rows) - 1)) \X {0} :
                              cIdx < Len(result.rows[rIdx + 1].data)}
                newMetadata ==
                    Spread(cleaned.metadata,
                           [k \in {Key(startRowIndex + e[1], e[2]) : e \in tagged} |->
                               ExtractionTag(id)])
                newSources ==
                    Spread(cleaned.sources,
                           [r \in {startRowIndex + rIdx : rIdx \in 0..(Len(result.rows) - 1)} |->
                               [fileId |-> id, fileName |-> FileName(id),
                                citation |-> result.rows[r - startRowIndex + 1].citation]])
            IN HistoryState(updatedData, newMetadata, newSources)
       ELSE cleaned

\* A runExtraction that appends without first removing the file's old rows.
runExtractionWithoutClean(id, result, currentData, currentMeta, currentSources) ==
    LET cleaned == HistoryState(currentData, currentMeta, currentSources)
    IN IF result # Null /\ Len(result.rows) > 0
       THEN LET startRowIndex == Len(cleaned.data)
                newRowsData == [i \in 1..Len(result.rows) |-> result.rows[i].data]
                updatedData == cleaned.data \o newRowsData
                tagged == {<<rIdx, cIdx>> \in (0..(Len(result.rows) - 1)) \X (0..MaxCols) :
                              cIdx < Len(result.rows[rIdx + 1].data)}
                newMetadata ==
                    Spread(cleaned.metadata,
                           [k \in {Key(startRowIndex + e[1], e[2]) : e \in tagged} |->
                               ExtractionTag(id)])
                newSources ==
                    Spread(cleaned.sources,
                           [r \in {startRowIndex + rIdx : rIdx \in 0..(Len(result.rows) - 1)} |->
                               [fileId |-> id, fileName |-> FileName(id),
                                citation |-> result.rows[r - startRowIndex + 1].citation]])
            IN HistoryState(updatedData, newMetadata, newSources)
       ELSE cleaned

\* The triple runExtraction returns once the adapter answered `result` for
\* the file `id`, called with the given triple.
runExtraction(id, result, currentData, currentMeta, currentSources) ==
    LET cleaned == removeDataForFileId(id, currentData, currentMeta, currentSources)
    IN IF result # Null /\ Len(result.rows) > 0
       THEN LET startRowIndex == Len(cleaned.data)
                newRowsData == [i \in 1..Len(result.rows) |-> result.rows[i].data]
                updatedData == cleaned.data \o newRowsData
                tagged == {<<rIdx, cIdx>> \in (0..(Len(result.rows) - 1)) \X (0..MaxCols) :
                              cIdx < Len(result.rows[rIdx + 1].data)}
                newMetadata ==
                    Spread(cleaned.metadata,
                           [k \in {Key(startRowIndex + e[1], e[2]) : e \in tagged} |->
                               ExtractionTag(id)])
                newSources ==
                    Spread(cleaned.sources,
                           [r \in {startRowIndex + rIdx : rIdx \in 0..(Len(result.rows) - 1)} |->
                               [fileId |-> id, fileName |-> FileName(id),
                                citation |-> result.rows[r - startRowIndex + 1].citation]])
            IN HistoryState(updatedData, newMetadata, newSources)
       ELSE cleaned

\* --- continuations ---

\* A handler suspended at an await: what its closure holds.
Continuation(op, arg, rest, working, cols, first) ==
    [op |-> op, arg |-> arg, rest |-> rest, working |-> working,
     cols |-> cols, first |-> first]

CanStart == ~crashed /\ Len(inflight) < MaxInFlight

RemoveAt(s, i) == SubSeq(s, 1, i - 1) \o SubSeq(s, i + 1, Len(s))

\* handleAddExtraFile up to the await of the first file's extraction.
handleAddExtraFile ==
    \E n \in 1..(MaxFiles - colorCounter) :
        LET newRefFiles == [i \in 1..n |-> NewId(colorCounter + i)]
        IN /\ CanStart
           /\ Budget
           /\ extraFiles' = extraFiles \o newRefFiles
           /\ colorCounter' = colorCounter + n
           /\ Commit
           /\ IF Len(fileData) > 0
              THEN /\ extractingFileIds' = Append(extractingFileIds, newRefFiles[1])
                   /\ extractionErrors' = Delete(extractionErrors, newRefFiles[1])
                   /\ inflight' = Append(inflight,
                          Continuation("handleAddExtraFile", newRefFiles[1],
                                       Tail(newRefFiles), Current, <<>>, TRUE))
              ELSE \* runExtraction returns null at once for every file
                   UNCHANGED <<extractingFileIds, extractionErrors, inflight>>
           /\ CountStart
           /\ TrackMutation
           /\ Did("handleAddExtraFile")
           /\ UNCHANGED <<fileData, editMetadata, rowSources, originalFileData,
                          isQuoting, quotingRowIndices, chatLoading, crashed,
                          profile>>
           /\ UNCHANGED <<gwVars, chatVars>>

\* A loop that hands every file the triple captured when the batch started.
workingAfterCaptured(result, working) == working

\* The loop's working triple after a runExtraction that returned `result`:
\* if (result) { workingData = result.updatedData; ... }.
workingAfter(result, working) == result

\* handleAddExtraFile from one awaited extraction to the next await or the end.
handleAddExtraFileResume ==
    \E i \in 1..Len(inflight) : \E response \in ExtractionResponses :
        LET k == inflight[i]
            result == extractDataFromReference(response)
        IN /\ ~crashed
           /\ k.op = "handleAddExtraFile"
           /\ LET w == runExtraction(k.arg, result, k.working.data,
                                     k.working.metadata, k.working.sources)
                  done == Without(extractingFileIds, k.arg)
              IN IF mergeThrows(result)
                 THEN \* the handler's promise rejects: no merge, no error
                      \* entry, and the files after this one are never run
                      /\ inflight' = RemoveAt(inflight, i)
                      /\ extractingFileIds' = done
                      /\ UNCHANGED <<fileData, editMetadata, rowSources,
                                     extractionErrors>>
                 ELSE
                 /\ SetCurrent(w)
                 /\ IF k.rest = <<>>
                    THEN /\ inflight' = RemoveAt(inflight, i)
                         /\ extractingFileIds' = done
                         /\ extractionErrors' =
                               extractionErrorsAfter(k.arg, result, extractionErrors)
                    ELSE /\ inflight' = [inflight EXCEPT ![i] =
                               Continuation("handleAddExtraFile", Head(k.rest),
                                            Tail(k.rest),
                                            workingAfter(w, k.working),
                                            <<>>, FALSE)]
                         /\ extractingFileIds' = Append(done, Head(k.rest))
                         /\ extractionErrors' =
                               Delete(extractionErrorsAfter(k.arg, result,
                                                            extractionErrors),
                                      Head(k.rest))
           /\ TrackApply
           /\ DidFrom("runExtraction", "extractDataFromReference", k.arg, result,
                      response)
           /\ UNCHANGED <<history, future, originalFileData, extraFiles,
                          colorCounter, isQuoting, quotingRowIndices, chatLoading,
                          crashed, profile, started>>
           /\ UNCHANGED <<gwVars, chatVars>>

\* The chip's re-run button (hidden while that file is being extracted), up to
\* the await.
handleManualExtract ==
    \E refFile \in Range(extraFiles) :
        /\ CanStart
        /\ Budget
        /\ ~Includes(extractingFileIds, refFile)
        /\ Commit
        /\ IF Len(fileData) > 0
           THEN /\ extractingFileIds' = Append(extractingFileIds, refFile)
                /\ extractionErrors' = Delete(extractionErrors, refFile)
                /\ inflight' = Append(inflight,
                       Continuation("handleManualExtract", refFile, <<>>,
                                    Current, <<>>, TRUE))
           ELSE \* runExtraction returns null at once
                UNCHANGED <<extractingFileIds, extractionErrors, inflight>>
        /\ CountStart
        /\ TrackMutation
        /\ Did("handleManualExtract")
        /\ UNCHANGED <<fileData, editMetadata, rowSources, originalFileData,
                       extraFiles, colorCounter, isQuoting, quotingRowIndices,
                       chatLoading, crashed, profile>>
        /\ UNCHANGED <<gwVars, chatVars>>

handleManualExtractResume ==
    \E i \in 1..Len(inflight) : \E response \in ExtractionResponses :
        LET k == inflight[i]
            result == extractDataFromReference(response)
        IN /\ ~crashed
           /\ k.op = "handleManualExtract"
           /\ extractingFileIds' = Without(extractingFileIds, k.arg)
           /\ inflight' = RemoveAt(inflight, i)
           /\ IF mergeThrows(result)
              THEN \* the handler's promise rejects
                   UNCHANGED <<fileData, editMetadata, rowSources,
                               extractionErrors>>
              ELSE /\ SetCurrent(runExtraction(k.arg, result, k.working.data,
                                               k.working.metadata,
                                               k.working.sources))
                   /\ extractionErrors' =
                         extractionErrorsAfter(k.arg, result, extractionErrors)
           /\ TrackApply
           /\ DidFrom("runExtraction", "extractDataFromReference", k.arg, result,
                      response)
           /\ UNCHANGED <<history, future, originalFileData, extraFiles,
                          colorCounter, isQuoting, quotingRowIndices, chatLoading,
                          crashed, profile, started>>
           /\ UNCHANGED <<gwVars, chatVars>>

\* --- quoting ---

requiredCols == <<"Net Price", "Price/Unit", "Est. Delivery">>

\* The required column names that h?.toString().toLowerCase() includes.
Mentions(h) ==
    CASE h = "Net Price" -> {"Net Price"}
      [] h = "NET PRICE (EUR)" -> {"Net Price"}
      [] h = "Price/Unit" -> {"Price/Unit"}
      [] h = "Est. Delivery" -> {"Est. Delivery"}
      [] h = "Net Price/Unit" -> {"Net Price", "Price/Unit"}
      [] OTHER -> {}

\* headers.findIndex(h => h?.toString().toLowerCase().includes(colName...)),
\* 0-based, -1 when none does.
findIndex(headers, colName) ==
    LET hits == {i \in 1..Len(headers) : colName \in Mentions(headers[i])}
    IN IF hits = {} THEN -1
       ELSE (CHOOSE i \in hits : \A j \in hits : i <= j) - 1

\* requiredCols.forEach of handleAutoQuote and handleSingleRowQuote: the
\* headers after the first n required columns were resolved.
RECURSIVE resolvedHeaders(_, _)
resolvedHeaders(headers, n) ==
    IF n = 0 THEN headers
    ELSE LET before == resolvedHeaders(headers, n - 1)
         IN IF findIndex(before, requiredCols[n]) = -1
            THEN Append(before, requiredCols[n])
            ELSE before

\* colIndices, in the order of requiredCols.
colIndicesOf(headers) ==
    [n \in 1..3 |->
        LET before == resolvedHeaders(headers, n - 1)
            idx == findIndex(before, requiredCols[n])
        IN IF idx = -1 THEN Len(before) ELSE idx]

\* row[idx] = v on a copy: an index past the end leaves holes.
SetAt(row, idx, v) ==
    [i \in 1..(IF idx + 1 > Len(row) THEN idx + 1 ELSE Len(row)) |->
        IF i = idx + 1 THEN v
        ELSE IF i <= Len(row) THEN row[i] ELSE Undefined]

\* while (row.length < n) row.push("")
PadTo(row, n) ==
    [i \in 1..(IF n > Len(row) THEN n ELSE Len(row)) |->
        IF i <= Len(row) THEN row[i] ELSE ""]

\* new URL(...).hostname, Undefined when the constructor throws.
hostname(url) ==
    CASE url = "https://www.octo24.com/p/1" -> "www.octo24.com"
      [] url = "octo24.com/p/1" -> "octo24.com"
      [] OTHER -> Undefined

\* .replace(/^www\./, "")
stripWww(host) == IF host = "www.octo24.com" THEN "octo24.com" ELSE host

getDomain(url) ==
    IF ~Truthy(url) THEN "AI Search"
    ELSE IF hostname(url) = Undefined THEN "External Source"
    ELSE stripWww(hostname(url))

QuotedRow(rowId, sourceUrl) ==
    [rowId |-> rowId, totalNetPrice |-> "10.00", netPricePerUnit |-> "5.00",
     estimatedDelivery |-> "2 days", sourceUrl |-> sourceUrl, reasoning |-> "r"]

\* What the gateway call of quoteProducts comes to: a rejection, or a text
\* in which the regular expressions find nothing, something JSON.parse
\* throws on, a value that is no array, or an array.
QuoteResponses ==
    IF profile = "wide"
    THEN {[kind |-> "reject"], [kind |-> "nojson"], [kind |-> "unparsable"],
          [kind |-> "object"]}
         \cup {[kind |-> "array", parsedData |-> q] :
                  q \in {<<>>, <<QuotedRow(1, "https://www.octo24.com/p/1")>>,
                         <<QuotedRow(0, Undefined)>>}}
    ELSE {[kind |-> "reject"]}

\* rows.map((row, index) => ({ rowId: index + 1, data: row }))
itemsToQuote(rows) == [index \in 1..Len(rows) |-> [rowId |-> index, data |-> rows[index]]]

\* What quoteProducts resolves with for the rows sent: null, or the parsed
\* array as it came (boxed in a record so that it compares with null).
quoteProducts(rows, response) ==
    IF response.kind = "array" THEN [quotes |-> response.parsedData] ELSE Null

QuoteResults(rows) == {quoteProducts(rows, response) : response \in QuoteResponses}

apiSource(fileId, quote) ==
    [fileId |-> fileId, fileName |-> "AI Quoting",
     citation |-> [type |-> "api", endpoint |-> getDomain(quote.sourceUrl),
                   reasoning |-> quote.reasoning, url |-> quote.sourceUrl]]

writeQuote(row, cols, quote) ==
    SetAt(SetAt(SetAt(row, cols[1], quote.totalNetPrice),
                cols[2], quote.netPricePerUnit),
          cols[3], quote.estimatedDelivery)

aiTags(rowIndex, cols) ==
    [k \in {Key(rowIndex, cols[n]) : n \in 1..3} |-> "ai"]

\* quotes.forEach of handleAutoQuote, over the first n quotes.
RECURSIVE mergeQuotes(_, _, _, _)
mergeQuotes(quotes, n, cols, updated) ==
    IF n = 0 THEN updated
    ELSE LET t == mergeQuotes(quotes, n - 1, cols, updated)
             quote == quotes[n]
             rowIndex == quote.rowId
         IN IF rowIndex < Len(t.data)
            THEN HistoryState(
                    [t.data EXCEPT ![rowIndex + 1] =
                        writeQuote(t.data[rowIndex + 1], cols, quote)],
                    Spread(t.metadata, aiTags(rowIndex, cols)),
                    Put(t.sources, rowIndex, apiSource("conrad-quoting", quote)))
            ELSE t

\* updatedData once the missing columns were created: every row gets one ""
\* per created column, row 0 becomes the header list.
expandedData(data) ==
    LET updatedHeaders == resolvedHeaders(data[1], 3)
        created == Len(updatedHeaders) - Len(data[1])
    IN [i \in 1..Len(data) |->
           IF i = 1 THEN updatedHeaders
           ELSE data[i] \o [c \in 1..created |-> ""]]

\* The "Auto Quote" button (disabled while isQuoting), up to the await.
handleAutoQuote ==
    /\ CanStart
    /\ Budget
    /\ ~isQuoting
    /\ Len(fileData) > 0
    /\ isQuoting' = TRUE
    /\ Commit
    /\ inflight' = Append(inflight,
           Continuation("handleAutoQuote", 0, Tail(expandedData(fileData)),
                        HistoryState(expandedData(fileData), editMetadata, rowSources),
                        colIndicesOf(fileData[1]), TRUE))
    /\ CountStart
    /\ TrackMutation
    /\ Did("handleAutoQuote")
    /\ UNCHANGED <<fileData, editMetadata, rowSources, originalFileData, extractionErrors,
                   extraFiles, colorCounter, extractingFileIds,
                   quotingRowIndices, chatLoading, crashed, profile>>
    /\ UNCHANGED <<gwVars, chatVars>>

handleAutoQuoteResume ==
    \E i \in 1..Len(inflight) : \E result \in QuoteResults(inflight[i].rest) :
        LET k == inflight[i]
        IN /\ ~crashed
           /\ k.op = "handleAutoQuote"
           /\ IF result # Null /\ Len(result.quotes) > 0
              THEN SetCurrent(mergeQuotes(result.quotes, Len(result.quotes),
                                          k.cols, k.working))
              ELSE UNCHANGED <<fileData, editMetadata, rowSources>>
           /\ isQuoting' = FALSE
           /\ inflight' = RemoveAt(inflight, i)
           /\ TrackApply
           /\ DidWith("handleAutoQuoteResume", "quoteProducts", 0, result)
           /\ UNCHANGED <<history, future, originalFileData, extractionErrors, extraFiles,
                          colorCounter, extractingFileIds, quotingRowIndices,
                          chatLoading, crashed, profile, started>>
           /\ UNCHANGED <<gwVars, chatVars>>

\* A data row's quote button (disabled while that row is quoting), up to the
\* await.
handleSingleRowQuote ==
    \E rowIndex \in 1..(Len(fileData) - 1) :
        LET currentHeaders == resolvedHeaders(fileData[1], 3)
            columnsAdded == Len(currentHeaders) > Len(fileData[1])
            currentData == [i \in 1..Len(fileData) |->
                               IF i = 1 THEN currentHeaders
                               ELSE PadTo(fileData[i], Len(currentHeaders))]
        IN /\ CanStart
           /\ Budget
           /\ ~Includes(quotingRowIndices, rowIndex)
           /\ quotingRowIndices' = Append(quotingRowIndices, rowIndex)
           /\ Commit
           /\ fileData' = IF columnsAdded THEN currentData ELSE fileData
           /\ inflight' = Append(inflight,
                  Continuation("handleSingleRowQuote", rowIndex,
                               <<IF columnsAdded THEN currentData[rowIndex + 1]
                                 ELSE fileData[rowIndex + 1]>>,
                               HistoryState(currentHeaders, editMetadata, rowSources),
                               colIndicesOf(fileData[1]), ~columnsAdded))
           /\ CountStart
           /\ TrackMutation
           /\ Did("handleSingleRowQuote")
           /\ UNCHANGED <<editMetadata, rowSources, originalFileData, extractionErrors, extraFiles,
                          colorCounter, extractingFileIds, isQuoting,
                          chatLoading, crashed, profile>>
           /\ UNCHANGED <<gwVars, chatVars>>

\* After the await: the three functional updates run against the state of the
\* render that processes them.
handleSingleRowQuoteResume ==
    \E i \in 1..Len(inflight) : \E result \in QuoteResults(inflight[i].rest) :
        LET k == inflight[i]
            rowIndex == k.arg
            currentHeaders == k.working.data
        IN /\ ~crashed
           /\ k.op = "handleSingleRowQuote"
           /\ inflight' = RemoveAt(inflight, i)
           /\ quotingRowIndices' = Without(quotingRowIndices, rowIndex)
           /\ IF result # Null /\ Len(result.quotes) > 0
              THEN IF rowIndex < Len(fileData)
                   THEN /\ fileData' = [fileData EXCEPT ![rowIndex + 1] =
                               writeQuote(PadTo(fileData[rowIndex + 1],
                                                Len(currentHeaders)),
                                          k.cols, result.quotes[1])]
                        /\ editMetadata' = Spread(editMetadata, aiTags(rowIndex, k.cols))
                        /\ rowSources' = Put(rowSources, rowIndex,
                               apiSource("conrad-quoting-single", result.quotes[1]))
                        /\ UNCHANGED crashed
                   ELSE \* [...undefined] throws inside the updater
                        /\ crashed' = TRUE
                        /\ UNCHANGED <<fileData, editMetadata, rowSources>>
              ELSE UNCHANGED <<fileData, editMetadata, rowSources, crashed>>
           /\ TrackApply
           /\ DidWith("handleSingleRowQuoteResume", "quoteProducts",
                      rowIndex, result)
           /\ UNCHANGED <<history, future, originalFileData, extractionErrors, extraFiles,
                          colorCounter, extractingFileIds, isQuoting,
                          chatLoading, profile, started>>
           /\ UNCHANGED <<gwVars, chatVars>>

\* --- chat (GeminiChat.handleSendMessage, Home.handleGeminiUpdate) ---

ChatRow(hasIndex, index, data, citation) ==
    [hasIndex |-> hasIndex, index |-> index, data |-> data, citation |-> citation]

\* What the fenced block of the answer parses to: { rows: [...] }, a bare
\* 2D array, or nothing that updates the grid; or the gateway rejects.
ChatResponses ==
    IF profile = "wide"
    THEN {[kind |-> "rows", rows |-> <<>>],
          [kind |-> "rows",
           rows |-> <<ChatRow(TRUE, 1, <<"p3", "7">>, DocumentCitation)>>],
          [kind |-> "rows",
           rows |-> <<ChatRow(FALSE, 0, <<"n1">>, NoCitation)>>],
          [kind |-> "rows",
           rows |-> <<ChatRow(TRUE, -1, <<"n2">>, SpreadsheetCitation),
                      ChatRow(TRUE, 2, <<"n3">>, NoCitation),
                      ChatRow(TRUE, 9, <<"n4", "4">>, NoCitation)>>],
          [kind |-> "array", data |-> <<<<"Part">>, <<"p4">>>>],
          [kind |-> "array", data |-> <<>>],
          [kind |-> "text"],
          [kind |-> "reject"]}
    ELSE {[kind |-> "rows", rows |-> <<ChatRow(TRUE, 1, <<"p3">>, NoCitation)>>]}

gemini(citation) ==
    [fileId |-> "gemini-chat", fileName |-> "Gemini Chat", citation |-> citation]

\* A merge that appends every row, whatever its index.
RECURSIVE mergeRowsAlwaysAppends(_, _, _)
mergeRowsAlwaysAppends(rows, n, data) ==
    IF n = 0 THEN [workingData |-> data, newSources |-> EmptyMap]
    ELSE LET w == mergeRowsAlwaysAppends(rows, n - 1, data)
             r == rows[n]
             targetIndex == Len(w.workingData)
         IN [workingData |-> Append(w.workingData, r.data),
             newSources |->
                IF r.citation # NoCitation
                THEN Put(w.newSources, targetIndex, gemini(r.citation))
                ELSE w.newSources]

\* parsedObj.rows.forEach over the first n rows: workingData and newSources.
RECURSIVE mergeRows(_, _, _)
mergeRows(rows, n, data) ==
    IF n = 0 THEN [workingData |-> data, newSources |-> EmptyMap]
    ELSE LET w == mergeRows(rows, n - 1, data)
             r == rows[n]
             update == r.hasIndex /\ r.index >= 0 /\ r.index < Len(w.workingData)
             targetIndex == IF update THEN r.index ELSE Len(w.workingData)
         IN [workingData |->
                IF update THEN [w.workingData EXCEPT ![targetIndex + 1] = r.data]
                ELSE Append(w.workingData, r.data),
             newSources |->
                IF r.citation # NoCitation
                THEN Put(w.newSources, targetIndex, gemini(r.citation))
                ELSE w.newSources]

\* A handleGeminiUpdate that tags every cell of the new grid.
handleGeminiUpdateTagsAll(newData, newSources, captured) ==
    LET changed == {<<rIndex, cIndex>> \in (0..(Len(newData) - 1)) \X (0..MaxCols) :
                       cIndex < Len(newData[rIndex + 1])}
        newMetadata == Spread(captured.metadata,
                              [k \in {Key(e[1], e[2]) : e \in changed} |-> "ai"])
    IN HistoryState(newData, newMetadata, Spread(captured.sources, newSources))

\* handleGeminiUpdate's triple, computed from the render it closes over.
handleGeminiUpdate(newData, newSources, captured) ==
    LET old == captured.data
        changed == {<<rIndex, cIndex>> \in (0..(Len(newData) - 1)) \X (0..MaxCols) :
                       /\ cIndex < Len(newData[rIndex + 1])
                       /\ \/ rIndex >= Len(old)
                          \/ String(newData[rIndex + 1][cIndex + 1]) #
                                String(IF cIndex < Len(old[rIndex + 1])
                                       THEN old[rIndex + 1][cIndex + 1]
                                       ELSE Undefined)}
        newMetadata == Spread(captured.metadata,
                              [k \in {Key(e[1], e[2]) : e \in changed} |-> "ai"])
    IN HistoryState(newData, newMetadata, Spread(captured.sources, newSources))

\* The send button (disabled while loading), up to the await of the gateway.
handleSendMessage ==
    /\ CanStart
    /\ ChatBudget
    /\ ~chatLoading
    /\ chatLoading' = TRUE
    /\ inflight' = Append(inflight,
           Continuation("handleSendMessage", 0, <<>>, Current, <<>>, TRUE))
    /\ started' = IF profile = "deep" THEN started ELSE started + 1
    /\ Did("handleSendMessage")
    /\ UNCHANGED <<fileData, editMetadata, rowSources, history, future,
                   originalFileData, extractionErrors, extraFiles, colorCounter, extractingFileIds,
                   isQuoting, quotingRowIndices, crashed, profile,
                   nCommitted, nUndone, linear>>
    /\ UNCHANGED <<gwVars, chatVars>>

\* The answer arrives: onDataUpdate is the handleGeminiUpdate of the render in
\* which the message was sent.
handleSendMessageResume ==
    \E i \in 1..Len(inflight) : \E response \in ChatResponses :
        LET k == inflight[i]
            captured == k.working
        IN /\ ~crashed
           /\ k.op = "handleSendMessage"
           /\ inflight' = RemoveAt(inflight, i)
           /\ chatLoading' = FALSE
           /\ IF response.kind \in {"rows", "array"}
              THEN LET merged == IF response.kind = "rows"
                                 THEN mergeRows(response.rows, Len(response.rows),
                                                captured.data)
                                 ELSE [workingData |-> response.data,
                                       newSources |-> EmptyMap]
                   IN /\ history' = Append(history, captured)
                      /\ SetCurrent(handleGeminiUpdate(merged.workingData,
                                                       merged.newSources, captured))
                      /\ TrackMutation
                      /\ DidWith("handleGeminiUpdate", "chat", 0, response)
              ELSE /\ UNCHANGED <<fileData, editMetadata, rowSources, history,
                                  nCommitted, nUndone, linear>>
                   /\ DidWith("handleSendMessageResume", "chat", 0, response)
           /\ UNCHANGED <<future, originalFileData, extractionErrors, extraFiles, colorCounter,
                          extractingFileIds, isQuoting, quotingRowIndices,
                          crashed, profile, started>>
           /\ UNCHANGED <<gwVars, chatVars>>

\* The state after handleFileChange has loaded the main file.
Init ==
    /\ profile \in {"wide", "deep"}
    /\ fileData = LoadedFile
    /\ originalFileData = LoadedFile
    /\ extractionErrors = EmptyMap
    /\ editMetadata = EmptyMap
    /\ rowSources = EmptyMap
    /\ history = <<>>
    /\ future = <<>>
    /\ extraFiles = <<>>
    /\ colorCounter = 0
    /\ extractingFileIds = <<>>
    /\ isQuoting = FALSE
    /\ quotingRowIndices = <<>>
    /\ chatLoading = FALSE
    /\ inflight = <<>>
    /\ crashed = FALSE
    /\ started = 0
    /\ nCommitted = 0 /\ nUndone = 0 /\ linear = TRUE
    /\ lastOp = "handleFileChange"
    /\ answer = NoAnswer
    /\ ai = TRUE /\ availableModels = <<"m1">> /\ startModel = "m1"
    /\ hasOnRetry = FALSE /\ gwPc = "idle" /\ modelName = Undefined
    /\ failedList = <<>> /\ gwLog = <<>>
    /\ gwResult = [error |-> Undefined, text |-> Undefined,
                   finalModel |-> Undefined]
    /\ messages = <<>>

Next ==
    \/ handleUndo
    \/ handleRedo
    \/ saveEdit
    \/ handleResetData
    \/ removeExtraFile
    \/ handleAddExtraFile
    \/ handleAddExtraFileResume
    \/ handleManualExtract
    \/ handleManualExtractResume
    \/ handleAutoQuote
    \/ handleAutoQuoteResume
    \/ handleSingleRowQuote
    \/ handleSingleRowQuoteResume
    \/ handleSendMessage
    \/ handleSendMessageResume

Spec == Init /\ [][Next]_vars

\* ------------------------------------------------------------------------
\* The quoting handlers on main files with any header row
\* ------------------------------------------------------------------------

\* Header rows of up to MaxHeaderLen labels are loaded.
MaxHeaderLen == 3

\* Labels a loaded header row is made of.
HeaderLabels ==
    {"Part", "Net Price", "NET PRICE (EUR)", "Price/Unit", "Est. Delivery",
     "Net Price/Unit"}

HeaderRows ==
    UNION {[1..n -> HeaderLabels] : n \in 1..MaxHeaderLen}

\* A loaded file with the header row h and one data row.
LoadedFileWith(h) == <<h, [c \in 1..Len(h) |-> IF c = 1 THEN "p1" ELSE ""]>>

\* The state after handleFileChange has loaded a main file with some header.
InitQuoting ==
    /\ profile = "wide"
    /\ \E h \in HeaderRows :
          /\ fileData = LoadedFileWith(h)
          /\ originalFileData = LoadedFileWith(h)
    /\ extractionErrors = EmptyMap
    /\ editMetadata = EmptyMap
    /\ rowSources = EmptyMap
    /\ history = <<>>
    /\ future = <<>>
    /\ extraFiles = <<>>
    /\ colorCounter = 0
    /\ extractingFileIds = <<>>
    /\ isQuoting = FALSE
    /\ quotingRowIndices = <<>>
    /\ chatLoading = FALSE
    /\ inflight = <<>>
    /\ crashed = FALSE
    /\ started = 0
    /\ nCommitted = 0 /\ nUndone = 0 /\ linear = TRUE
    /\ lastOp = "handleFileChange"
    /\ answer = NoAnswer
    /\ ai = TRUE /\ availableModels = <<"m1">> /\ startModel = "m1"
    /\ hasOnRetry = FALSE /\ gwPc = "idle" /\ modelName = Undefined
    /\ failedList = <<>> /\ gwLog = <<>>
    /\ gwResult = [error |-> Undefined, text |-> Undefined,
                   finalModel |-> Undefined]
    /\ messages = <<>>

NextQuoting ==
    \/ handleAutoQuote
    \/ handleAutoQuoteResume
    \/ handleSingleRowQuote
    \/ handleSingleRowQuoteResume

SpecQuoting == InitQuoting /\ [][NextQuoting]_vars

\* ------------------------------------------------------------------------
\* The callers of the gateway: extractDataFromReference, quoteProducts and
\* GeminiChat.handleSendMessage, each running one generateContentWithFallback
\* call and then reading its text
\* ------------------------------------------------------------------------

\* Calls of the gateway's callers that are explored.
MaxCalls == 2

\* Longest availableModels list, and the names in it, under the callers.
MaxCallModels == 2
CallModels == {"m1", "m2"}

\* startModel under the callers: one of them, or a name no list contains.
CallStartModels == CallModels \cup {"mx"}

Callers == {"extractDataFromReference", "quoteProducts", "handleSendMessage"}

\* A caller is between its gateway call and the continuation after it.
Pending == lastOp \in Callers /\ answer = NoAnswer

CanCall == gwPc = "idle" /\ ~Pending /\ started < MaxCalls

\* The gateway's text as the callers' parsers see it: "" is the empty text.
ExtractionHeard ==
    IF gwPc = "rejected" THEN {[kind |-> "reject"]}
    ELSE {r \in ExtractionResponses :
             r.kind = "text" /\ ((r.text = <<>>) <=> (gwResult.text = ""))}

QuoteHeard ==
    IF gwPc = "rejected" THEN {[kind |-> "reject"]}
    ELSE {r \in QuoteResponses :
             r.kind # "reject" /\ (gwResult.text = "" => r.kind = "nojson")}

\* For the chat: a fenced block parsing to { rows }, to an array, no fenced
\* block at all ("text"), or a fenced block that JSON.parse throws on.
ChatHeard ==
    IF gwPc = "rejected" THEN {[kind |-> "reject"]}
    ELSE {[kind |-> k] :
             k \in IF gwResult.text = "" THEN {"text"}
                   ELSE {"rows", "array", "text", "invalid"}}

\* extractDataFromReference up to the await of the gateway; when
\* readFileAsBase64 rejects it returns null without calling the gateway.
extractDataFromReferenceCall ==
    /\ CanCall
    /\ ~chatLoading
    /\ hasOnRetry
    /\ started' = started + 1
    /\ lastOp' = "extractDataFromReference"
    /\ \/ /\ callGateway
          /\ answer' = NoAnswer
       \/ /\ answer' = [of |-> "extractDataFromReference", arg |-> 0,
                        value |-> extractDataFromReference([kind |-> "readError"]),
                        response |-> [kind |-> "readError"]]
          /\ UNCHANGED gwVars
    /\ UNCHANGED <<homeVars, chatVars, profile, nCommitted, nUndone, linear>>

\* extractDataFromReference after the await.
extractDataFromReferenceReturn ==
    /\ Pending
    /\ lastOp = "extractDataFromReference"
    /\ gwPc \in {"resolved", "rejected"}
    /\ \E response \in ExtractionHeard :
          answer' = [of |-> "extractDataFromReference", arg |-> 0,
                     value |-> extractDataFromReference(response),
                     response |-> response]
    /\ gwPc' = "idle"
    /\ UNCHANGED <<ai, availableModels, startModel, hasOnRetry, modelName,
                   failedList, gwLog, gwResult>>
    /\ UNCHANGED <<homeVars, chatVars, profile, started, nCommitted, nUndone,
                   linear, lastOp>>

\* quoteProducts up to the await of the gateway (it passes no onRetry).
quoteProductsCall ==
    /\ CanCall
    /\ ~chatLoading
    /\ ~hasOnRetry
    /\ started' = started + 1
    /\ lastOp' = "quoteProducts"
    /\ answer' = NoAnswer
    /\ callGateway
    /\ UNCHANGED <<homeVars, chatVars, profile, nCommitted, nUndone, linear>>

\* The quote response is a text that does not hold the expected array.
MalformedQuote(response) == response.kind \in {"nojson", "unparsable", "object"}

\* A quoteProducts that, on a malformed text, calls the next model.
quoteProductsReturnRetries ==
    /\ Pending
    /\ lastOp = "quoteProducts"
    /\ gwPc \in {"resolved", "rejected"}
    /\ \E response \in QuoteHeard :
          LET nextModel == getNextModel(modelName, Append(failedList, modelName))
          IN IF MalformedQuote(response) /\ Truthy(nextModel)
             THEN /\ gwPc' = "awaiting"
                  /\ modelName' = nextModel
                  /\ failedList' = Append(failedList, modelName)
                  /\ gwLog' = Append(gwLog, CallEvent(nextModel))
                  /\ UNCHANGED answer
             ELSE /\ answer' = [of |-> "quoteProducts", arg |-> 0,
                                value |-> quoteProducts(<<>>, response),
                                response |-> response]
                  /\ gwPc' = "idle"
                  /\ UNCHANGED <<modelName, failedList, gwLog>>
    /\ UNCHANGED <<ai, availableModels, startModel, hasOnRetry, gwResult>>
    /\ UNCHANGED <<homeVars, chatVars, profile, started, nCommitted, nUndone,
                   linear, lastOp>>

\* quoteProducts after the await.
quoteProductsReturn ==
    /\ Pending
    /\ lastOp = "quoteProducts"
    /\ gwPc \in {"resolved", "rejected"}
    /\ \E response \in QuoteHeard :
          answer' = [of |-> "quoteProducts", arg |-> 0,
                     value |-> quoteProducts(<<>>, response),
                     response |-> response]
    /\ gwPc' = "idle"
    /\ UNCHANGED <<ai, availableModels, startModel, hasOnRetry, modelName,
                   failedList, gwLog, gwResult>>
    /\ UNCHANGED <<homeVars, chatVars, profile, started, nCommitted, nUndone,
                   linear, lastOp>>

\* GeminiChat.handleSendMessage up to the await of the gateway (the send
\* button is disabled while loading).
sendMessage ==
    /\ CanCall
    /\ ~chatLoading
    /\ hasOnRetry
    /\ started' = started + 1
    /\ messages' = Append(messages, Turn("user", started + 1, UserText, FALSE))
    /\ chatLoading' = TRUE
    /\ lastOp' = "handleSendMessage"
    /\ answer' = NoAnswer
    /\ callGateway
    /\ UNCHANGED <<fileData, editMetadata, rowSources, history, future,
                   originalFileData, extractionErrors, extraFiles, colorCounter,
                   extractingFileIds, isQuoting, quotingRowIndices, inflight,
                   crashed>>
    /\ UNCHANGED <<profile, nCommitted, nUndone, linear>>

\* A handleSendMessage that resets the loading flag at the end of its try
\* block instead of in a finally block.
sendMessageSettledWithoutFinally ==
    /\ Pending
    /\ lastOp = "handleSendMessage"
    /\ gwPc \in {"resolved", "rejected"}
    /\ \E response \in ChatHeard :
          /\ messages' = Append(messages,
                IF response.kind = "reject"
                THEN Turn("model", started, ErrorText, TRUE)
                ELSE Turn("model", started, AnswerText, FALSE))
          /\ answer' = [of |-> "chat", arg |-> started,
                        value |-> [onDataUpdate |-> response.kind \in {"rows", "array"}],
                        response |-> response]
    /\ chatLoading' = (gwPc = "rejected")
    /\ gwPc' = "idle"
    /\ UNCHANGED <<ai, availableModels, startModel, hasOnRetry, modelName,
                   failedList, gwLog, gwResult>>
    /\ UNCHANGED <<fileData, editMetadata, rowSources, history, future,
                   originalFileData, extractionErrors, extraFiles, colorCounter,
                   extractingFileIds, isQuoting, quotingRowIndices, inflight,
                   crashed>>
    /\ UNCHANGED <<profile, started, nCommitted, nUndone, linear, lastOp>>

\* GeminiChat.handleSendMessage after the await: the try block's rest or the
\* catch block, then finally.
sendMessageSettled ==
    /\ Pending
    /\ lastOp = "handleSendMessage"
    /\ gwPc \in {"resolved", "rejected"}
    /\ \E response \in ChatHeard :
          /\ messages' = Append(messages,
                IF response.kind = "reject"
                THEN Turn("model", started, ErrorText, TRUE)
                ELSE Turn("model", started, AnswerText, FALSE))
          /\ answer' = [of |-> "chat", arg |-> started,
                        value |-> [onDataUpdate |-> response.kind \in {"rows", "array"}],
                        response |-> response]
    /\ chatLoading' = FALSE
    /\ gwPc' = "idle"
    /\ UNCHANGED <<ai, availableModels, startModel, hasOnRetry, modelName,
                   failedList, gwLog, gwResult>>
    /\ UNCHANGED <<fileData, editMetadata, rowSources, history, future,
                   originalFileData, extractionErrors, extraFiles, colorCounter,
                   extractingFileIds, isQuoting, quotingRowIndices, inflight,
                   crashed>>
    /\ UNCHANGED <<profile, started, nCommitted, nUndone, linear, lastOp>>

\* The trash button (shown while there are turns).
handleClearChat ==
    /\ Len(messages) > 0
    /\ messages' = <<>>
    /\ UNCHANGED <<gwVars, homeVars, traceVars>>

InitCalls ==
    /\ ai \in BOOLEAN
    /\ availableModels \in SeqsUpTo(CallModels, MaxCallModels)
    /\ startModel \in CallStartModels
    /\ hasOnRetry \in BOOLEAN
    /\ gwPc = "idle"
    /\ modelName = Undefined
    /\ failedList = <<>>
    /\ gwLog = <<>>
    /\ gwResult = [error |-> Undefined, text |-> Undefined,
                   finalModel |-> Undefined]
    /\ fileData = <<>> /\ editMetadata = <<>> /\ rowSources = <<>>
    /\ history = <<>> /\ future = <<>> /\ originalFileData = <<>>
    /\ extractionErrors = <<>>
    /\ extraFiles = <<>> /\ extractingFileIds = <<>> /\ isQuoting = FALSE
    /\ quotingRowIndices = <<>> /\ inflight = <<>>
    /\ colorCounter = 0 /\ chatLoading = FALSE /\ crashed = FALSE
    /\ profile = "wide" /\ started = 0
    /\ nCommitted = 0 /\ nUndone = 0 /\ linear = FALSE /\ lastOp = "none"
    /\ answer = NoAnswer
    /\ messages = <<>>

NextCalls ==
    \/ extractDataFromReferenceCall
    \/ extractDataFromReferenceReturn
    \/ quoteProductsCall
    \/ quoteProductsReturn
    \/ sendMessage
    \/ sendMessageSettled
    \/ handleClearChat
    \/ attemptReturns
    \/ attemptCatch

SpecCalls == InitCalls /\ [][NextCalls]_vars

\* The model call returns or throws, and a settled call is continued.
SpecCallsFair ==
    /\ SpecCalls
    /\ WF_vars(attemptReturns \/ attemptCatch)
    /\ WF_vars(sendMessageSettled)

\* ------------------------------------------------------------------------
\* Properties of the history
\* ------------------------------------------------------------------------

\* C5: starting from the freshly loaded state, n <= MAX_HISTORY committed
\* mutations followed by n handleUndo calls leave a (grid, provenance,
\* citations) triple equal to the loaded one.  nCommitted counts the mutations
\* committed since the load and nUndone the handleUndo calls after the last of
\* them; linear says that nothing else happened.
ThmC5 ==
    (linear /\ nCommitted > 0 /\ nUndone = nCommitted) => Current = Loaded

WitC5 ==
    /\ linear
    /\ nCommitted = MAX_HISTORY
    /\ nUndone = nCommitted
    /\ lastOp = "handleUndo"
    /\ future[Len(future)].data # originalFileData

\* C6: handleUndo then handleRedo, from any state with a non-empty undo
\* stack, restores the current triple and both stacks; so does handleRedo then
\* handleUndo from any state with a non-empty redo stack.
ThmC6 ==
    /\ Len(history) > 0 =>
          handleRedoResult(handleUndoResult(CurrentDoc)) = CurrentDoc
    /\ Len(future) > 0 =>
          handleUndoResult(handleRedoResult(CurrentDoc)) = CurrentDoc

WitC6 ==
    /\ lastOp = "handleRedo"
    /\ Len(history) > 1
    /\ Len(future) > 1
    /\ history[Len(history)] # Current
    /\ future[1] # Current

MutatingOps ==
    {"saveEdit", "handleResetData", "removeExtraFile", "handleAddExtraFile",
     "handleManualExtract", "handleAutoQuote", "handleSingleRowQuote",
     "handleGeminiUpdate"}

\* C7: in every reachable state the undo stack holds at most MAX_HISTORY
\* snapshots.
OrigC7 == Len(history) <= MAX_HISTORY

\* C8: right after a mutating action was committed the redo stack is empty.
OrigC8 == lastOp \in MutatingOps => future = <<>>

\* The continuation at position i was resumed by this step.
Resumed(i) ==
    \/ inflight' = RemoveAt(inflight, i)
    \/ Len(inflight') = Len(inflight) /\ inflight'[i] # inflight[i]

\* This step applies the first changes of a mutating operation.
FirstApplication ==
    \/ lastOp' \in {"saveEdit", "handleResetData", "removeExtraFile",
                    "handleGeminiUpdate"}
    \/ lastOp' = "handleSingleRowQuote" /\ fileData' # fileData
    \/ /\ lastOp' \in {"runExtraction", "handleAutoQuoteResume",
                       "handleSingleRowQuoteResume"}
       /\ Current' # Current
       /\ \E i \in 1..Len(inflight) : inflight[i].first /\ Resumed(i)

\* C9: when a mutating operation applies its changes, the newest undo
\* snapshot is the triple that was current immediately before them.
OrigC9 ==
    [][FirstApplication =>
          (Len(history') > 0 /\ history'[Len(history')] = Current)]_vars

\* C10: re-running the extraction of a reference file right after a run that
\* got the same rows yields the same grid: same row count, same cell values.
ThmC10 ==
    Len(fileData) > 0 =>
    \A id \in Range(extraFiles) :
    \A result \in {x \in ExtractionResults : ~mergeThrows(x)} :
        LET once == runExtraction(id, result, fileData, editMetadata, rowSources)
            twice == runExtraction(id, result, once.data, once.metadata,
                                   once.sources)
        IN twice.data = once.data

\* The second extraction of f1 has just been merged: the snapshot taken when
\* it started already held rows of f1.
WitC10 ==
    /\ lastOp = "runExtraction"
    /\ inflight = <<>>
    /\ extraFiles = <<"f1">>
    /\ Len(history) = 2
    /\ \E r \in DOMAIN history[2].sources : history[2].sources[r].fileId = "f1"
    /\ \E r \in DOMAIN rowSources : rowSources[r].fileId = "f1"
    /\ fileData = history[2].data
    /\ Len(fileData) = 4

\* ------------------------------------------------------------------------
\* Properties of removal, extraction, chat merge, edits and quoting
\* ------------------------------------------------------------------------

\* Every id crypto.randomUUID() hands out within the bounds.
FileIds == {NewId(n) : n \in 1..MaxFiles}

\* Data row r of the current grid is attributed to the file id: one of its
\* cells is tagged extraction-<id>, or its citation names the file.
Attributed(id, r) ==
    \/ \E c \in 0..(Len(fileData[r + 1]) - 1) :
          Key(r, c) \in DOMAIN editMetadata
          /\ editMetadata[Key(r, c)] = ExtractionTag(id)
    \/ r \in DOMAIN rowSources /\ rowSources[r].fileId = id

DataRows == 1..(Len(fileData) - 1)

\* C11: removeDataForFileId(id, ...) on the current triple returns a grid
\* without the data rows attributed to id, a provenance map without an
\* extraction-<id> tag, a citation map without an entry of file id, and it
\* keeps the header row.
ThmC11 ==
    Len(fileData) > 0 =>
    \A id \in FileIds :
        LET out == removeDataForFileId(id, fileData, editMetadata, rowSources)
        IN /\ Len(out.data) =
                 1 + Cardinality({r \in DataRows : ~Attributed(id, r)})
           /\ out.data[1] = fileData[1]
           /\ \A k \in DOMAIN out.metadata : out.metadata[k] # ExtractionTag(id)
           /\ \A r \in DOMAIN out.sources : out.sources[r].fileId # id

\* removeExtraFile has just removed the rows of a file while another row that
\* is tagged or cited stays.
WitC11 ==
    /\ lastOp = "removeExtraFile"
    /\ Len(history[Len(history)].data) > Len(fileData)
    /\ \E r \in DOMAIN history[Len(history)].sources :
          history[Len(history)].sources[r].fileId \in FileIds

\* The rows removeDataForFileId(id, ...) must keep, oldest index first.
Kept(id) == Ascending({0} \cup {r \in DataRows : ~Attributed(id, r)})

\* C12: after removeDataForFileId(id, ...) every row not attributed to id
\* keeps its cells and its relative order, and its cells' tags and its
\* citation are the ones it had, keyed by its new index; nothing else is in
\* the returned maps.
ThmC12 ==
    Len(fileData) > 0 =>
    \A id \in FileIds :
        LET out == removeDataForFileId(id, fileData, editMetadata, rowSources)
            kept == Kept(id)
        IN /\ Len(out.data) = Len(kept)
           /\ \A n \in 0..(Len(kept) - 1) :
                LET old == kept[n + 1]
                IN /\ out.data[n + 1] = fileData[old + 1]
                   /\ \A c \in 0..(Len(fileData[old + 1]) - 1) :
                        /\ Key(n, c) \in DOMAIN out.metadata
                              <=> Key(old, c) \in DOMAIN editMetadata
                        /\ Key(old, c) \in DOMAIN editMetadata =>
                              out.metadata[Key(n, c)] = editMetadata[Key(old, c)]
                   /\ n \in DOMAIN out.sources <=> old \in DOMAIN rowSources
                   /\ old \in DOMAIN rowSources =>
                         out.sources[n] = rowSources[old]
           /\ DOMAIN out.metadata \subseteq
                 {Key(n, c) : <<n, c>> \in
                     {e \in (0..(Len(kept) - 1)) \X (0..MaxCols) :
                         e[2] < Len(out.data[e[1] + 1])}}
           /\ DOMAIN out.sources \subseteq 0..(Len(kept) - 1)

\* removeExtraFile("f1") has just run while rows of f2 sat below those of f1:
\* the rows of f2 moved up with their tags and citations.
WitC12 ==
    /\ lastOp = "removeExtraFile"
    /\ extraFiles = <<"f2">>
    /\ LET before == history[Len(history)]
       IN \E r1 \in DOMAIN before.sources : \E r2 \in DOMAIN before.sources :
             /\ r1 < r2
             /\ before.sources[r1].fileId = "f1"
             /\ before.sources[r2].fileId = "f2"
             /\ (r2 - 1) \in DOMAIN rowSources
             /\ rowSources[r2 - 1].fileId = "f2"
             /\ Key(r2 - 1, 0) \in DOMAIN editMetadata

\* The step resumes an extraction whose adapter call returned null or no rows.
ExtractionFailed ==
    /\ lastOp' = "runExtraction"
    /\ (answer'.value = Null \/ Len(answer'.value.rows) = 0)

\* C13: when the adapter returns null or zero rows for file F, runExtraction
\* does not throw, leaves an error message under F's id, and the triple applied
\* is the one runExtraction was called with, cleaned of F's rows.
ThmC13 ==
    [][ExtractionFailed =>
          \E i \in 1..Len(inflight) :
              LET k == inflight[i]
              IN /\ Resumed(i)
                 /\ k.arg = answer'.arg
                 /\ ~crashed'
                 /\ k.arg \in DOMAIN extractionErrors'
                 /\ extractionErrors'[k.arg] = ErrorMessage(k.arg)
                 /\ Current' = removeDataForFileId(k.arg, k.working.data,
                                   k.working.metadata, k.working.sources)]_vars

\* A retry for f1 has just come back with zero rows: the rows of the first
\* run are gone and the chip shows the error.
WitC13 ==
    /\ lastOp = "runExtraction"
    /\ answer.arg = "f1"
    /\ answer.value # Null
    /\ answer.value.rows = <<>>
    /\ "f1" \in DOMAIN extractionErrors
    /\ Len(history) = 2
    /\ \E r \in DOMAIN history[2].sources : history[2].sources[r].fileId = "f1"
    /\ \A r \in DOMAIN rowSources : rowSources[r].fileId # "f1"
    /\ Len(fileData) < Len(history[2].data)

\* The step merges a structured { rows: [...] } chat answer.
StructuredMerge ==
    lastOp' = "handleGeminiUpdate" /\ answer'.value.kind = "rows"

\* The row indices the answer names.
Named(response) ==
    {response.rows[n].index :
        n \in {m \in 1..Len(response.rows) : response.rows[m].hasIndex}}

\* C14: a structured chat merge leaves every row whose index the answer does
\* not name with its pre-merge cells, and removes no row.
OrigC14 ==
    [][StructuredMerge =>
          /\ Len(fileData') >= Len(fileData)
          /\ \A r \in 0..(Len(fileData) - 1) :
                r \notin Named(answer'.value) =>
                    fileData'[r + 1] = fileData[r + 1]]_vars

\* The number of the first n response rows that are appended to a grid of
\* len rows: those without an index in [0, row count at their turn).
RECURSIVE AppendedAmong(_, _, _)
AppendedAmong(rows, n, len) ==
    IF n = 0 THEN 0
    ELSE LET before == AppendedAmong(rows, n - 1, len)
             r == rows[n]
         IN IF r.hasIndex /\ r.index >= 0 /\ r.index < len + before
            THEN before ELSE before + 1

\* The index at which response row n ends up.
TargetOf(rows, n, len) ==
    IF AppendedAmong(rows, n, len) = AppendedAmong(rows, n - 1, len)
    THEN rows[n].index
    ELSE len + AppendedAmong(rows, n - 1, len)

\* The last response row that ends up at index t, 0 if none does.
LastAt(rows, t, len) ==
    LET hits == {n \in 1..Len(rows) : TargetOf(rows, n, len) = t}
    IN IF hits = {} THEN 0 ELSE CHOOSE n \in hits : \A m \in hits : m <= n

OrigC16 ==
    [][(lastOp' = "saveEdit" /\ answer'.of = "edit") =>
          LET rowIndex == answer'.arg[1]
              colIndex == answer'.arg[2]
          IN /\ answer'.value.typed
             /\ answer'.value.value #
                   startEditing(fileData[rowIndex + 1][colIndex + 1])]_vars

\* C17: once the main file is loaded the grid always has its header row.
OrigC17 == Len(fileData) >= 1

\* A step of handleAutoQuote or handleSingleRowQuote that installs a grid
\* whose header row is longer than the one it replaces.
QuotingAddedColumns ==
    /\ lastOp' \in {"handleAutoQuoteResume", "handleSingleRowQuote",
                    "handleSingleRowQuoteResume"}
    /\ Len(fileData) > 0
    /\ Len(fileData') > 0
    /\ Len(fileData'[1]) > Len(fileData[1])

\* C18: after a quoting merge that adds header columns every row of the grid
\* is at least as long as the header row.
OrigC18 ==
    [][QuotingAddedColumns =>
          \A r \in 1..Len(fileData') : Len(fileData'[r]) >= Len(fileData'[1])]_vars

\* The step installs the merge of a non-empty quoteProducts answer of
\* handleAutoQuote.
AutoQuoteMerge ==
    /\ lastOp' = "handleAutoQuoteResume"
    /\ answer'.value # Null
    /\ Len(answer'.value.quotes) > 0

\* The positions of the quotes whose rowId is r.
QuotesFor(quotes, r) == {m \in 1..Len(quotes) : quotes[m].rowId = r}

\* C19: a handleAutoQuote merge whose rowIds are data rows of the grid writes
\* each quote's three values into row rowId, tags those three cells ai and
\* records an api citation for that row; every other cell, tag and citation
\* of the grid is as before the merge, apart from "" padding.
OrigC19 ==
    [][AutoQuoteMerge =>
          LET quotes == answer'.value.quotes
              n == Len(fileData) - 1
              cols == colIndicesOf(fileData[1])
              quoted == {r \in 1..n : QuotesFor(quotes, r) # {}}
              written == {Key(r, cols[c]) : r \in quoted, c \in 1..3}
          IN (\A m \in 1..Len(quotes) : quotes[m].rowId \in 1..n) =>
                /\ Len(fileData') = Len(fileData)
                /\ \A r \in 1..n : \A c \in 0..(Len(fileData'[r + 1]) - 1) :
                      LET cell == fileData'[r + 1][c + 1]
                      IN IF r \in quoted /\ c \in Range(cols)
                         THEN \E m \in QuotesFor(quotes, r) :
                                 cell = writeQuote(fileData[r + 1], cols,
                                                   quotes[m])[c + 1]
                         ELSE IF c < Len(fileData[r + 1])
                              THEN cell = fileData[r + 1][c + 1]
                              ELSE cell \in {"", Undefined}
                /\ \A key \in (DOMAIN editMetadata \cup DOMAIN editMetadata'
                                  \cup written) :
                      Get(editMetadata', key) =
                          IF key \in written THEN "ai"
                          ELSE Get(editMetadata, key)
                /\ \A r \in 1..n :
                      IF r \in quoted
                      THEN \E m \in QuotesFor(quotes, r) :
                              Get(rowSources', r) =
                                  apiSource("conrad-quoting", quotes[m])
                      ELSE Get(rowSources', r) = Get(rowSources, r)]_vars

\* The step resumes a handler after its quoteProducts call resolved with a
\* list.
QuoteSucceeded(i) ==
    /\ inflight[i].op \in {"handleAutoQuote", "handleSingleRowQuote"}
    /\ Resumed(i)
    /\ answer'.of = "quoteProducts"
    /\ answer'.value # Null

\* C20: a quoteProducts call that does not resolve with null resolves with
\* one QuotedRow per row sent, their rowIds being 1..n, each once.
OrigC20 ==
    [][\A i \in 1..Len(inflight) :
          QuoteSucceeded(i) =>
              LET quotes == answer'.value.quotes
                  items == itemsToQuote(inflight[i].rest)
              IN /\ Len(quotes) = Len(items)
                 /\ {quotes[m].rowId : m \in 1..Len(quotes)} =
                       {items[m].rowId : m \in 1..Len(items)}]_vars

\* The last step resumed runExtraction with what extractDataFromReference
\* made of a response.
ExtractionAnswered == answer.of = "extractDataFromReference"

PartialBatch ==
    /\ lastOp' = "runExtraction"
    /\ answer'.of = "extractDataFromReference"
    /\ answer'.value # Null
    /\ \E i \in 1..Len(answer'.value.rows) : "data" \in DOMAIN answer'.value.rows[i]
    /\ \E i \in 1..Len(answer'.value.rows) : "data" \notin DOMAIN answer'.value.rows[i]

\* C22: when an extraction batch holds rows without a data array, the rows
\* that have one are still merged into the grid, attributed to the file.
OrigC22 ==
    [][PartialBatch =>
          \A i \in 1..Len(answer'.value.rows) :
              LET row == answer'.value.rows[i]
              IN "data" \in DOMAIN row =>
                    \E r \in 1..(Len(fileData') - 1) :
                        /\ fileData'[r + 1] = row.data
                        /\ r \in DOMAIN rowSources'
                        /\ rowSources'[r].fileId = answer'.arg]_vars

\* The citation is of exactly one variant of ExtractionCitation / the api
\* citation of the quoting merge: that variant's fields and no others.
OneVariant(citation) ==
    \/ citation.type = "document" /\ DOMAIN citation = {"type", "page", "quote"}
    \/ /\ citation.type = "spreadsheet"
       /\ DOMAIN citation = {"type", "location", "reasoning"}
    \/ /\ citation.type = "api"
       /\ {"type", "endpoint", "reasoning"} \subseteq DOMAIN citation
       /\ DOMAIN citation \subseteq {"type", "endpoint", "reasoning", "url"}

\* C23: every citation in the row citation map is of exactly one variant
\* with its required fields; no document citation lacks its quote.
OrigC23 == \A r \in DOMAIN rowSources : OneVariant(rowSources[r].citation)

\* The extraction response is a text whose bracketed part is not JSON.
MalformedExtraction(response) ==
    /\ response.kind = "text"
    /\ "{" \in Range(response.text)
    /\ "}" \in Range(response.text)
    /\ JSONparse(substring(response.text, IndexOf(response.text, "{"),
                           lastIndexOf(response.text, "}") + 1)) = "throws"

\* C24: once a model call has returned text the gateway call is over: no
\* further model is called for that caller, whatever the text holds, and an
\* adapter that cannot parse the text resolves with null.
ThmC24 ==
    [][gwPc = "resolved" =>
          /\ gwPc' \in {"resolved", "idle"}
          /\ gwLog' = gwLog
          /\ modelName' = modelName
          /\ (gwPc' = "idle" /\ lastOp = "extractDataFromReference"
                 /\ MalformedExtraction(answer'.response))
                => answer'.value = Null
          /\ (gwPc' = "idle" /\ lastOp = "quoteProducts"
                 /\ MalformedQuote(answer'.response))
                => answer'.value = Null]_vars

\* After m1 threw, m2 answered a text that is no JSON; quoteProducts resolved
\* with null and m2 was the last model called.
WitC24 ==
    /\ lastOp = "quoteProducts"
    /\ answer # NoAnswer
    /\ answer.response.kind = "unparsable"
    /\ answer.value = Null
    /\ availableModels = <<"m1", "m2">>
    /\ Len(gwLog) = 2
    /\ gwLog[2] = CallEvent("m2")
    /\ gwPc = "idle"

\* What the user can see of one file's extraction once runExtraction got
\* `result`: the triple its callers install and the file's chip error.
Outcome(id, result) ==
    [triple |-> runExtraction(id, result, fileData, editMetadata, rowSources),
     error |-> Get(extractionErrorsAfter(id, result, extractionErrors), id)]

\* C25: for every attached file, an extraction answered with rows = [] has
\* an outcome that differs from the outcome of one answered with null.
OrigC25 ==
    Len(fileData) > 0 =>
        \A id \in Range(extraFiles) :
            \A model \in {"m1", "m2"} :
                Outcome(id, [rows |-> <<>>, finalModel |-> model])
                    # Outcome(id, Null)

\* The turns in the list that the send numbered n produced.
TurnsOf(n) == SelectSeq(messages, LAMBDA t : t.send = n)

\* s is what is left of t after some of its first elements were dropped.
IsSuffix(s, t) ==
    Len(s) <= Len(t) /\ s = SubSeq(t, Len(t) - Len(s) + 1, Len(t))

\* The turns the running or last send must have appended so far: its user
\* turn, one system turn per fallback transition of its gateway call, in
\* order, and its model turn once the call was continued.
ExpectedTurns ==
    <<Turn("user", started, UserText, FALSE)>>
    \o [i \in 1..Len(RetryEvents) |->
           Turn("system", started,
                SwitchText(RetryEvents[i].model, RetryEvents[i].next), FALSE)]
    \o (IF Pending THEN <<>>
        ELSE <<[role |-> "model", send |-> started]>>)

\* A turn without its text and error flag when it is a model turn.
Shape(t) == IF t.role = "model" THEN [role |-> "model", send |-> t.send] ELSE t

\* C26: the turns of a send are its user turn (there before the gateway is
\* called), then one system turn per fallback transition in transition
\* order, then one model turn and nothing after it; handleClearChat can only
\* have removed the first of them.
ThmC26 ==
    lastOp = "handleSendMessage" =>
        LET mine == [i \in 1..Len(TurnsOf(started)) |-> Shape(TurnsOf(started)[i])]
        IN /\ IsSuffix(mine, ExpectedTurns)
           /\ (Len(mine) > 0 /\ mine[1].role = "user") => mine = ExpectedTurns
           /\ \A i, j \in 1..Len(messages) :
                 i < j => messages[i].send <= messages[j].send

\* A send whose gateway call went through two fallback transitions and then
\* got its answer: user, system, system, model.
WitC26 ==
    /\ lastOp = "handleSendMessage"
    /\ ~Pending
    /\ Len(messages) = 4
    /\ messages[1].role = "user"
    /\ messages[2] = Turn("system", 1, SwitchText("mx", "m1"), FALSE)
    /\ messages[3] = Turn("system", 1, SwitchText("m1", "m2"), FALSE)
    /\ messages[4] = Turn("model", 1, AnswerText, FALSE)

\* The step continues a chat send whose gateway call rejected.
SendRejected ==
    /\ lastOp = "handleSendMessage"
    /\ Pending
    /\ gwPc = "rejected"
    /\ gwPc' = "idle"

\* C27: when the gateway call of a chat send rejects, handleSendMessage
\* appends one model turn with isError and the fixed text, throws nothing,
\* does not call onDataUpdate and resets the loading flag; no send ever has
\* two model turns, and a loading chat whose call rejected stops loading.
ThmC27 ==
    /\ [][SendRejected =>
             /\ messages' = Append(messages,
                                   Turn("model", started, ErrorText, TRUE))
             /\ ~answer'.value.onDataUpdate
             /\ ~crashed'
             /\ ~chatLoading']_vars
    /\ [](\A n \in 1..MaxCalls :
             Len(SelectSeq(TurnsOf(n), LAMBDA t : t.role = "model")) <= 1)
    /\ (chatLoading /\ gwPc = "rejected") ~> (~chatLoading /\ gwPc = "idle")

\* Every model of the list threw; the chat shows the user turn, the switch
\* notice and the error turn, and is ready for the next send.
WitC27 ==
    /\ lastOp = "handleSendMessage"
    /\ ~Pending
    /\ answer.response.kind = "reject"
    /\ gwResult.error = "AI Request failed"
    /\ Len(messages) = 3
    /\ messages[2].role = "system"
    /\ messages[3] = Turn("model", 1, ErrorText, TRUE)
    /\ ~chatLoading
    /\ gwPc = "idle"

\* The step merges the extraction of one file of a handleAddExtraFile batch.
BatchMerge(i) ==
    /\ i <= Len(inflight)
    /\ inflight[i].op = "handleAddExtraFile"
    /\ Resumed(i)
    /\ lastOp' = "runExtraction"
    /\ ~mergeThrows(answer'.value)

\* C28: in a handleAddExtraFile batch each file's merge keeps the rows that
\* the merges before it attributed to other files, appends its own rows under
\* its own file id, and hands the triple it installed to the extraction of
\* the next file, which is started in the same step and not before.
ThmC28 ==
    [][\A i \in 1..MaxInFlight :
          BatchMerge(i) =>
              LET k == inflight[i]
                  result == answer'.value
                  before == k.working
                  n == IF result = Null THEN 0 ELSE Len(result.rows)
              IN /\ \A r \in DOMAIN before.sources :
                       before.sources[r].fileId # k.arg =>
                           /\ r < Len(fileData')
                           /\ fileData'[r + 1] = before.data[r + 1]
                           /\ rowSources'[r] = before.sources[r]
                 /\ Len(fileData') >= n + 1
                 /\ \A m \in 1..n :
                       LET r == Len(fileData') - n + m - 1
                       IN /\ fileData'[r + 1] = result.rows[m].data
                          /\ rowSources'[r].fileId = k.arg
                 /\ k.rest # <<>> =>
                       /\ Len(inflight') = Len(inflight)
                       /\ inflight'[i].arg = Head(k.rest)
                       /\ inflight'[i].working = Current'
                       /\ Includes(extractingFileIds', Head(k.rest))
                       /\ ~Includes(extractingFileIds, Head(k.rest))]_vars

\* A batch of two files is over: both extractions returned rows, the rows of
\* f1 are followed by the rows of f2, each under its own file id.
WitC28 ==
    /\ lastOp = "runExtraction"
    /\ inflight = <<>>
    /\ extraFiles = <<"f1", "f2">>
    /\ answer.arg = "f2"
    /\ Len(history) = 1
    /\ \E r1, r2 \in DOMAIN rowSources :
          /\ r1 < r2
          /\ rowSources[r1].fileId = "f1"
          /\ rowSources[r2].fileId = "f2"

\* C29: while an asynchronous merge awaits its model call, the grid, the
\* provenance and the citations change only when that merge is resumed.
OrigC29 ==
    [][(Len(inflight) > 0 /\ Current' # Current) =>
          \E i \in 1..Len(inflight) : Resumed(i)]_vars

\* C30: handleResetData commits the triple it replaces and then installs the
\* grid as loaded with no provenance and no citations; a handleUndo that is
\* the next thing to happen restores that pre-reset triple exactly.
ThmC30 ==
    [][/\ lastOp' = "handleResetData" =>
            /\ fileData' = originalFileData
            /\ editMetadata' = EmptyMap
            /\ rowSources' = EmptyMap
            /\ Len(history') > 0
            /\ history'[Len(history')] = Current
            /\ future' = <<>>
       /\ (lastOp = "handleResetData" /\ lastOp' = "handleUndo") =>
            /\ Len(history) > 0
            /\ Current' = history[Len(history)]
            /\ Len(future') = 1
            /\ future'[1] = Loaded]_vars

\* An edited grid was reset and the reset was undone: the edit is back and
\* the reset's result waits on the redo stack.
WitC30 ==
    /\ lastOp = "handleUndo"
    /\ future = <<Loaded>>
    /\ history = <<Loaded>>
    /\ \E k \in DOMAIN editMetadata : editMetadata[k] = "user"
    /\ fileData # originalFileData

\* The step resumes the quoting handler at position i, right after its
\* start, with a null or empty answer of quoteProducts.
QuoteFailed(i) ==
    /\ i <= Len(inflight)
    /\ inflight[i].op \in {"handleAutoQuote", "handleSingleRowQuote"}
    /\ lastOp = inflight[i].op
    /\ Resumed(i)
    /\ answer'.of = "quoteProducts"
    /\ (answer'.value = Null \/ Len(answer'.value.quotes) = 0)

\* C31: when quoteProducts yields null or an empty list, the grid with its
\* header, the provenance and the citations are what they were when the
\* quoting handler started, which is the triple the handler committed.
OrigC31 ==
    [][\A i \in 1..MaxInFlight :
          QuoteFailed(i) =>
              /\ Len(history) > 0
              /\ Current' = history[Len(history)]]_vars

\* The step resumes the extraction at position i with an answer of at least
\* one row, and the merge ran to its end.
ExtractionMerged(i) ==
    /\ i <= Len(inflight)
    /\ inflight[i].op \in {"handleAddExtraFile", "handleManualExtract"}
    /\ Resumed(i)
    /\ lastOp' = "runExtraction"
    /\ answer'.value # Null
    /\ ~mergeThrows(answer'.value)
    /\ Len(answer'.value.rows) >= 1

\* C32: after a successful extraction merge for file F returning k >= 1
\* rows, the k rows are the last k rows of the grid in returned order, each
\* of their cells is tagged extraction-<F.id>, each has a citation record
\* with fileId F.id, and every row of the cleaned grid keeps its position,
\* its values, its tags and its citation.
ThmC32 ==
    [][\A i \in 1..MaxInFlight :
          ExtractionMerged(i) =>
              LET F == inflight[i].arg
                  w == inflight[i].working
                  rows == answer'.value.rows
                  cleaned == removeDataForFileId(F, w.data, w.metadata, w.sources)
                  base == Len(cleaned.data)
              IN /\ Len(fileData') = base + Len(rows)
                 /\ \A m \in 1..Len(rows) :
                       LET r == base + m - 1
                       IN /\ fileData'[r + 1] = rows[m].data
                          /\ \A c \in 0..(Len(fileData'[r + 1]) - 1) :
                                Get(editMetadata', Key(r, c)) = ExtractionTag(F)
                          /\ r \in DOMAIN rowSources'
                          /\ rowSources'[r].fileId = F
                          /\ rowSources'[r].citation = rows[m].citation
                 /\ \A r \in 0..(base - 1) :
                       /\ fileData'[r + 1] = cleaned.data[r + 1]
                       /\ \A c \in 0..MaxCols :
                             Get(editMetadata', Key(r, c)) =
                                 Get(cleaned.metadata, Key(r, c))
                       /\ (r \in DOMAIN rowSources') = (r \in DOMAIN cleaned.sources)
                       /\ r \in DOMAIN cleaned.sources =>
                             rowSources'[r] = cleaned.sources[r]]_vars

\* A file was extracted again after an extraction that had left rows: its
\* old rows are gone and the new rows close the grid, tagged and cited.
WitC32 ==
    /\ lastOp = "runExtraction"
    /\ inflight = <<>>
    /\ Len(history) = 2
    /\ answer.value # Null
    /\ ~mergeThrows(answer.value)
    /\ Len(answer.value.rows) >= 1
    /\ Len(fileData) = Len(originalFileData) + Len(answer.value.rows)
    /\ Get(editMetadata, Key(Len(fileData) - 1, 0)) = ExtractionTag(answer.arg)
    /\ history[2].data # originalFileData

\* The step is the handleGeminiUpdate called by the chat request at
\* position i.
ChatMerged(i) ==
    /\ i <= Len(inflight)
    /\ inflight[i].op = "handleSendMessage"
    /\ Resumed(i)
    /\ lastOp' = "handleGeminiUpdate"

\* The value at (r, c) of a grid, undefined outside of it.
CellAt(data, r, c) ==
    IF r < Len(data) /\ c < Len(data[r + 1]) THEN data[r + 1][c + 1]
    ELSE Undefined

\* C33: handleGeminiUpdate tags a cell of the new grid ai exactly when its
\* row index is beyond the previous grid or its string value differs from
\* the previous value at that position; every other position keeps the tag,
\* or the absence of a tag, it had before.
ThmC33 ==
    [][\A i \in 1..MaxInFlight :
          ChatMerged(i) =>
              LET previous == inflight[i].working
                  rowsSeen == IF Len(fileData') > Len(previous.data)
                              THEN Len(fileData') ELSE Len(previous.data)
              IN \A r \in 0..(rowsSeen - 1) : \A c \in 0..MaxCols :
                    LET isCell == r < Len(fileData') /\ c < Len(fileData'[r + 1])
                        tagged ==
                            /\ isCell
                            /\ \/ r >= Len(previous.data)
                               \/ String(fileData'[r + 1][c + 1]) #
                                     String(CellAt(previous.data, r, c))
                    IN Get(editMetadata', Key(r, c)) =
                           IF tagged THEN "ai"
                           ELSE Get(previous.metadata, Key(r, c))]_vars

\* A chat update on an edited grid: a changed cell is tagged ai, the edited
\* cell keeps its user tag and an untouched cell has no tag.
WitC33 ==
    /\ lastOp = "handleGeminiUpdate"
    /\ \E k \in DOMAIN editMetadata : editMetadata[k] = "ai"
    /\ \E k \in DOMAIN editMetadata : editMetadata[k] = "user"
    /\ \E c \in 0..(Len(fileData[1]) - 1) : Key(0, c) \notin DOMAIN editMetadata

\* C34: a manual cell edit applied while an extraction is in flight is still
\* in the grid and in the provenance after the extraction's result is
\* applied (the edited cell belongs to a row of the main file, which no
\* extraction removes or rewrites).
OrigC34 ==
    [][\A i \in 1..MaxInFlight :
          (/\ i <= Len(inflight)
           /\ inflight[i].op \in {"handleAddExtraFile", "handleManualExtract"}
           /\ Resumed(i)
           /\ lastOp = "saveEdit"
           /\ answer.of = "edit"
           /\ answer.arg[1] < Len(originalFileData)) =>
              LET r == answer.arg[1]
                  c == answer.arg[2]
              IN /\ CellAt(fileData', r, c) = CellAt(fileData, r, c)
                 /\ Get(editMetadata', Key(r, c)) = "user"]_vars

\* C35: every key of the provenance map names a row of the current grid and
\* every key of the citation map names an existing data row.
OrigC35 ==
    /\ \A k \in DOMAIN editMetadata :
          \E r \in 0..(Len(fileData) - 1) : \E c \in 0..MaxCols : k = Key(r, c)
    /\ \A r \in DOMAIN rowSources : 1 <= r /\ r < Len(fileData)

\* The ids handed out to reference files.
ReferenceFileIds == {NewId(k) : k \in 1..MaxFiles}

\* C36: every extraction-<id> tag and every citation whose fileId is the id
\* of a reference file refers to a file of the attached list.
OrigC36 ==
    /\ \A k \in DOMAIN editMetadata : \A id \in ReferenceFileIds :
          editMetadata[k] = ExtractionTag(id) => Includes(extraFiles, id)
    /\ \A r \in DOMAIN rowSources :
          rowSources[r].fileId \in ReferenceFileIds =>
              Includes(extraFiles, rowSources[r].fileId)

\* C37: handleAutoQuote never writes a quote into the header row: after its
\* merge the header is the captured header with the created column names
\* appended (or the header as it was, when nothing is merged), and the
\* header row gets no tag and no citation.
OrigC37 ==
    [][\A i \in 1..MaxInFlight :
          (/\ i <= Len(inflight)
           /\ inflight[i].op = "handleAutoQuote"
           /\ Resumed(i)
           /\ lastOp' = "handleAutoQuoteResume") =>
              LET expanded == inflight[i].working
              IN /\ fileData'[1] \in {fileData[1], expanded.data[1]}
                 /\ \A c \in 0..MaxCols :
                       Get(editMetadata', Key(0, c)) \in
                           {Get(editMetadata, Key(0, c)),
                            Get(expanded.metadata, Key(0, c))}
                 /\ 0 \in DOMAIN rowSources' =>
                       (0 \in DOMAIN rowSources \/ 0 \in DOMAIN expanded.sources)]_vars

\* C38: in handleAutoQuote and handleSingleRowQuote the three target columns
\* resolve to three pairwise distinct column indices, whatever the header.
OrigC38 ==
    \A i \in 1..Len(inflight) :
        inflight[i].op \in {"handleAutoQuote", "handleSingleRowQuote"} =>
            Cardinality({inflight[i].cols[n] : n \in 1..3}) = 3

\* The handlers that call commitToHistory() before their first await.
CommitsAtStart ==
    {"handleAddExtraFile", "handleManualExtract", "handleAutoQuote",
     "handleSingleRowQuote"}

\* C39: an operation that leaves the triple as it found it leaves the undo
\* stack as it found it. For a handler that committed at its start and is
\* resumed right after it, the triple it found is the newest snapshot and
\* the stack it found is the stack without that snapshot; the chat commits
\* when it applies its update.
OrigC39 ==
    [][\A i \in 1..MaxInFlight :
          /\ (/\ i <= Len(inflight)
              /\ inflight[i].op \in CommitsAtStart
              /\ lastOp = inflight[i].op
              /\ Resumed(i)
              /\ inflight' = <<>>
              /\ Len(history) > 0
              /\ Len(history) < MAX_HISTORY
              /\ Current' = history[Len(history)]) =>
                 history' = SubSeq(history, 1, Len(history) - 1)
          /\ (/\ ChatMerged(i)
              /\ lastOp = "handleSendMessage"
              /\ Current' = Current) =>
                 (history' = history /\ future' = future)]_vars

\* C40: every model or system turn of the message list comes after the user
\* turn of the send that produced it.
OrigC40 ==
    \A j \in 1..Len(messages) :
        messages[j].role \in {"model", "system"} =>
            \E i \in 1..(j - 1) :
                /\ messages[i].role = "user"
                /\ messages[i].send = messages[j].send

====
